---- MODULE Spec2Model ----
(***************************************************************************)
(* Model of the MetricsCollectorDO actor of the Cloudflare Prometheus      *)
(* exporter (src/src/index.ts, lines 221-1023): the alarm-driven refresh   *)
(* cycle, the counter/gauge reconciliation and the scrape serializer.      *)
(*                                                                         *)
(* Strings are sequences of tokens (a token is a character or an opaque    *)
(* word without separator characters), so that string concatenation is \o  *)
(* and the key built by metricKey can be parsed back by parseKey.          *)
(* Time is counted in whole seconds (Date.now() / 1000).                   *)
(***************************************************************************)
EXTENDS Integers, Sequences, FiniteSets, TLC

(***************************************************************************)
(* Bounds of the model                                                     *)
(***************************************************************************)
MaxTime == 4
MaxInterval == 2
MaxLabels == 3
MaxClock == 8
MaxBatch == 2
MaxOffset == 119
MaxNames == 3

(***************************************************************************)
(* Program constants                                                       *)
(***************************************************************************)
\* JavaScript undefined (state.lastError) and null (storage.getAlarm())
undefined == "<undefined>"
null == 0

\* METRICS table entries used by the model (name only)
ZONE_REQUESTS_TOTAL == <<"cloudflare_zone_requests_total">>
ZONE_REQUESTS_CACHED == <<"cloudflare_zone_requests_cached">>
EXPORTER_UP == <<"cloudflare_exporter_up">>
ZONES_TOTAL == <<"cloudflare_zones_total">>
ZONES_FILTERED == <<"cloudflare_zones_filtered">>
ZONES_PROCESSED == <<"cloudflare_zones_processed">>
ZONE_HEALTH_CHECK_EVENTS_ORIGIN_COUNT == <<"cloudflare_zone_health_check_events_origin_count">>
ZONE_HEALTH_CHECK_EVENTS_AVG == <<"cloudflare_zone_health_check_events_avg">>
ZONE_FIREWALL_EVENTS_COUNT == <<"cloudflare_zone_firewall_events_count">>

FREE_TIER_PLAN_ID == "0feeeeeeeeeeeeeeeeeeeeeeeeeeeeee"

(***************************************************************************)
(* Strings and keys                                                        *)
(***************************************************************************)
\* Collation rank of the tokens that occur in label keys (localeCompare)
Collation == <<"account", "country", "fqdn", "health_status", "host", "origin_ip",
               "status", "zone">>

RECURSIVE IndexOf(_, _, _)
IndexOf(seq, x, i) ==
    IF i > Len(seq) THEN 0
    ELSE IF seq[i] = x THEN i ELSE IndexOf(seq, x, i + 1)

TokenRank(t) == IndexOf(Collation, t, 1)

\* a.localeCompare(b) < 0, token by token; a proper prefix sorts first
RECURSIVE localeCompareLess(_, _)
localeCompareLess(a, b) ==
    IF b = <<>> THEN FALSE
    ELSE IF a = <<>> THEN TRUE
    ELSE IF Head(a) = Head(b) THEN localeCompareLess(Tail(a), Tail(b))
    ELSE TokenRank(Head(a)) < TokenRank(Head(b))

\* Array.prototype.sort of the label entries by key (insertion sort, stable)
RECURSIVE InsertEntry(_, _)
InsertEntry(e, sorted) ==
    IF sorted = <<>> THEN <<e>>
    ELSE IF localeCompareLess(e[1], Head(sorted)[1])
         THEN <<e>> \o sorted
         ELSE <<Head(sorted)>> \o InsertEntry(e, Tail(sorted))

RECURSIVE SortEntries(_)
SortEntries(entries) ==
    IF entries = <<>> THEN <<>>
    ELSE InsertEntry(entries[Len(entries)], SortEntries(SubSeq(entries, 1, Len(entries) - 1)))

\* Array.prototype.join(sep) on a sequence of strings
RECURSIVE Join(_, _)
Join(strs, sep) ==
    IF strs = <<>> THEN <<>>
    ELSE IF Len(strs) = 1 THEN strs[1]
    ELSE strs[1] \o sep \o Join(Tail(strs), sep)

\* Variant: the entries are joined in insertion order
metricKeyUnsorted(name, labels) ==
    LET pairs == [i \in 1..Len(labels) |-> labels[i][1] \o <<"=">> \o labels[i][2]]
    IN  name \o <<"{">> \o Join(pairs, <<",">>) \o <<"}">>

\* metricKey(name, labels): labels is the sequence of <<key, value>> entries
\* of the label object in insertion order
metricKey(name, labels) ==
    LET sorted == SortEntries(labels)
        pairs == [i \in 1..Len(sorted) |-> sorted[i][1] \o <<"=">> \o sorted[i][2]]
    IN  name \o <<"{">> \o Join(pairs, <<",">>) \o <<"}">>

\* parseKey(key): the regular expression ^([^{]+)(\{.*\})?$
\* name is the longest prefix without "{"; labels is the rest
FirstBrace(key) == IndexOf(key, "{", 1)

parseKey(key) ==
    LET b == FirstBrace(key)
    IN  IF b = 1 \/ key = <<>> \/ (b > 0 /\ key[Len(key)] # "}")
        THEN [name |-> key, labels |-> <<>>]
        ELSE IF b = 0 THEN [name |-> key, labels |-> <<>>]
        ELSE [name |-> SubSeq(key, 1, b - 1), labels |-> SubSeq(key, b, Len(key))]

\* normalizeAccountName: toLowerCase, then every space replaced by "-"
LowerToken(t) ==
    CASE t = "Acme" -> "acme"
      [] t = "A" -> "a"
      [] t = " " -> "-"
      [] OTHER -> t

normalizeAccountName(name) == [i \in 1..Len(name) |-> LowerToken(name[i])]

(***************************************************************************)
(* Upstream inventory and configuration                                    *)
(***************************************************************************)
\* Zones the upstream account can hold (Zone of Types.ts: id, name, plan, account)
Z1 == [id |-> "Z1", name |-> <<"example.com">>, plan |-> "pro", account |-> <<"Acme">>]
Z2 == [id |-> "Z2", name |-> <<"example.org">>, plan |-> "pro", account |-> <<"Acme">>]
Z3 == [id |-> "Z3", name |-> <<"example.net">>, plan |-> FREE_TIER_PLAN_ID,
       account |-> <<"Acme">>]

Intervals == 1..MaxInterval
Paths == {"/metrics", "/status", "/other"}

\* Error message built by collectMetrics on a failed exit (the cause is opaque)
FailureMessage == "Failed to collect metrics: <cause>"

VARIABLES
    now,          \* Date.now(), in seconds
    interval,     \* env.DO_ALARM_INTERVAL
    batchSize,    \* env.CF_BATCH_SIZE
    env,          \* the other options of the environment: [zones, excludeZones,
                  \* freeTier, excludeHost, scrapeDelay, timeWindow]
    upstream,     \* what the upstream API can answer: [zones, values, gaugeValues,
                  \* healthValues, maxRows, failing]
    counters,     \* this.state.counters : key -> [prev, accumulated]
    gauges,       \* this.state.gauges   : key -> value
    lastFetch,    \* this.state.lastFetch
    lastError,    \* this.state.lastError
    stored,       \* ctx.storage value under "metrics": <<>> or <<state>>
    currentAlarm, \* ctx.storage alarm time, null when none is set
    alarmPc,      \* position of the alarm handler; "loading" while the
                  \* constructor of a new instance reads the storage
    running,      \* number of executions of alarm() in progress
    zones,        \* zones fetched by the running cycle, <<>> when none runs
    exit,         \* result of the fetch program of the running cycle and the
                  \* outcomes of its category fetches, <<>> if none
    upstreamCalls,\* number of Upstream Client calls issued by the running cycle
    response,     \* request and response of the step just taken, <<>> if none
    lastCycle,    \* history: outcome of the most recent finished cycle
    lastRaw,      \* history: latest raw value reconciled for each counter key
    cycleStart,   \* history: time at which the latest cycle started, null if none
    exampleAt,    \* history: how many observations of ExampleKey have followed
                  \* the sequence Example so far, -1 once they departed from it
    input,        \* argument of the function under study (function specifications)
    output,       \* its result, <<>> before it is applied
    client        \* CloudflareClientLive: [now, lastRequestTime, calls, dispatches,
                  \* responses], <<>> where the client is not under study

actorVars == <<now, interval, batchSize, env, upstream, counters, gauges,
               lastFetch, lastError, stored, currentAlarm, alarmPc, running, zones, exit,
               upstreamCalls, response, lastCycle, lastRaw, exampleAt, cycleStart>>

funVars == <<input, output, client>>

vars == <<actorVars, funVars>>

state == [counters |-> counters, gauges |-> gauges,
          lastFetch |-> lastFetch, lastError |-> lastError]

\* The options at their defaults (Config.ts 88-109)
defaultEnv == [zones |-> <<>>, excludeZones |-> <<>>, freeTier |-> FALSE,
               excludeHost |-> TRUE, scrapeDelay |-> 300, timeWindow |-> 60]

\* ExporterConfig fields read by the actor (Config.ts 88-109), with
\* METRICS_DENYLIST=cloudflare_zone_requests_cached
config == [zones |-> env.zones, excludeZones |-> env.excludeZones,
           freeTier |-> env.freeTier, excludeHost |-> env.excludeHost,
           scrapeDelay |-> env.scrapeDelay, timeWindow |-> env.timeWindow,
           batchSize |-> batchSize, metricsDenylist |-> {ZONE_REQUESTS_CACHED}]

(***************************************************************************)
(* Map helpers                                                             *)
(***************************************************************************)
\* obj[key] = value on a JavaScript object / Map.set
Put(map, key, value) ==
    [k \in DOMAIN map \cup {key} |-> IF k = key THEN value ELSE map[k]]

EmptyMap == [k \in {} |-> 0]

RECURSIVE SetToSeq(_)
SetToSeq(S) ==
    IF S = {} THEN <<>>
    ELSE LET x == CHOOSE y \in S : TRUE IN <<x>> \o SetToSeq(S \ {x})

Includes(seq, x) == \E i \in 1..Len(seq) : seq[i] = x

(***************************************************************************)
(* collectMetrics: the fetch program (index.ts 399-912)                    *)
(***************************************************************************)
\* findZoneInfo(zones, zoneTag): <<>> when no zone has that id
findZoneInfo(zs, zoneTag) ==
    LET found == SelectSeq(zs, LAMBDA z : z.id = zoneTag)
    IN  IF found = <<>> THEN <<>>
        ELSE <<[name |-> found[1].name,
                account |-> normalizeAccountName(found[1].account)]>>

\* addCounter / addGauge on the temporary collectors of one cycle
\* (addGaugeFirstWins is the variant that keeps the first write of a key)
addCounter(raw, name, labels, value) ==
    [raw EXCEPT !.counters = Put(raw.counters, metricKey(name, labels), value)]

addGaugeFirstWins(raw, name, labels, value) ==
    IF metricKey(name, labels) \in DOMAIN raw.gauges THEN raw
    ELSE [raw EXCEPT !.gauges = Put(raw.gauges, metricKey(name, labels), value)]

addGauge(raw, name, labels, value) ==
    [raw EXCEPT !.gauges = Put(raw.gauges, metricKey(name, labels), value)]

\* Variant: a zone of the include-list is kept even when it is excluded
filteredZonesIncludeWins(zs) ==
    LET included == IF Len(config.zones) > 0
                    THEN SelectSeq(zs, LAMBDA z : Includes(config.zones, z.id))
                    ELSE zs
    IN  IF Len(config.excludeZones) > 0
        THEN SelectSeq(included, LAMBDA z : \/ ~Includes(config.excludeZones, z.id)
                                            \/ Includes(config.zones, z.id))
        ELSE included

\* Zone filtering by config.zones, config.excludeZones and the free tier
filteredZones(zs) ==
    LET included == IF Len(config.zones) > 0
                    THEN SelectSeq(zs, LAMBDA z : Includes(config.zones, z.id))
                    ELSE zs
    IN  IF Len(config.excludeZones) > 0
        THEN SelectSeq(included, LAMBDA z : ~Includes(config.excludeZones, z.id))
        ELSE included

nonFreeZones(zs) ==
    IF config.freeTier THEN filteredZones(zs)
    ELSE SelectSeq(filteredZones(zs), LAMBDA z : z.plan # FREE_TIER_PLAN_ID)

zoneIDs(zs) == [i \in 1..Len(nonFreeZones(zs)) |-> nonFreeZones(zs)[i].id]

\* Number of iterations of the batch loop: for (i = 0; i < n; i += batchSize)
BatchCount(n) == (n + config.batchSize - 1) \div config.batchSize

\* The exporter gauges emitted before the batch loop
ExporterMetrics(zs) ==
    LET r0 == [counters |-> EmptyMap, gauges |-> EmptyMap]
        r1 == addGauge(r0, EXPORTER_UP, <<>>, 1)
        r2 == addGauge(r1, ZONES_TOTAL, <<>>, Len(zs))
        r3 == addGauge(r2, ZONES_FILTERED, <<>>, Len(filteredZones(zs)))
    IN  addGauge(r3, ZONES_PROCESSED, <<>>, Len(zoneIDs(zs)))

\* The loop over zone.firewallEventsAdaptiveGroups (571-592): the events
\* counter is written once per group with the labels of the zone (the
\* counters that carry the dimensions of the group are left out)
RECURSIVE FirewallEvents(_, _, _)
FirewallEvents(groups, baseLabels, raw) ==
    IF groups = <<>> THEN raw
    ELSE FirewallEvents(Tail(groups), baseLabels,
             addCounter(raw, ZONE_FIREWALL_EVENTS_COUNT, baseLabels, Head(groups).count))

\* The loop over httpData.viewer.zones: one requests counter and one
\* cached-requests gauge per returned zone that is known to the cycle,
\* then the firewall events of the zone
RECURSIVE HTTPMetrics(_, _, _)
HTTPMetrics(rows, zs, raw) ==
    IF rows = <<>> THEN raw
    ELSE LET zone == Head(rows)
             info == findZoneInfo(nonFreeZones(zs), zone.zoneTag)
         IN  IF info = <<>> THEN HTTPMetrics(Tail(rows), zs, raw)
             ELSE LET baseLabels == << <<(<<"zone">>), info[1].name>>,
                                       <<(<<"account">>), info[1].account>> >>
                      c == addCounter(raw, ZONE_REQUESTS_TOTAL, baseLabels, zone.requests)
                      g == addGauge(c, ZONE_REQUESTS_CACHED, baseLabels, zone.cachedRequests)
                      fw == FirewallEvents(zone.firewallEventsAdaptiveGroups, baseLabels, g)
                  IN  HTTPMetrics(Tail(rows), zs, fw)

\* What the upstream may answer to fetchHTTPMetrics for the given zone ids:
\* per zone no row (no data) or up to upstream.maxRows rows
FirewallGroups ==
    UNION {[1..n -> [count : upstream.values]] : n \in 0..upstream.maxEvents}

RowsOf(id) ==
    {[zoneTag |-> id, requests |-> r, cachedRequests |-> c,
      firewallEventsAdaptiveGroups |-> fw] :
        r \in upstream.values, c \in upstream.gaugeValues, fw \in FirewallGroups}

RowChoices(id) == UNION {[1..n -> RowsOf(id)] : n \in 0..upstream.maxRows}

RECURSIVE HTTPResponses(_)
HTTPResponses(ids) ==
    IF ids = <<>> THEN {<<>>}
    ELSE {h \o t : h \in RowChoices(Head(ids)), t \in HTTPResponses(Tail(ids))}

\* The loop over healthData.viewer.zones (597-627): one events counter per
\* group and, for a zone with groups, the gauge of the average
RECURSIVE HealthGroups(_, _, _)
HealthGroups(groups, info, raw) ==
    IF groups = <<>> THEN raw
    ELSE LET group == Head(groups)
             labels == << <<(<<"zone">>), info.name>>,
                          <<(<<"account">>), info.account>>,
                          <<(<<"health_status">>), group.dimensions.healthStatus>>,
                          <<(<<"origin_ip">>), group.dimensions.originIP>>,
                          <<(<<"fqdn">>), group.dimensions.fqdn>> >>
         IN  HealthGroups(Tail(groups), info,
                          addCounter(raw, ZONE_HEALTH_CHECK_EVENTS_ORIGIN_COUNT,
                                     labels, group.count))

RECURSIVE TotalEvents(_)
TotalEvents(groups) ==
    IF groups = <<>> THEN 0 ELSE Head(groups).count + TotalEvents(Tail(groups))

RECURSIVE HealthMetrics(_, _, _)
HealthMetrics(rows, zs, raw) ==
    IF rows = <<>> THEN raw
    ELSE LET zone == Head(rows)
             info == findZoneInfo(nonFreeZones(zs), zone.zoneTag)
         IN  IF info = <<>> THEN HealthMetrics(Tail(rows), zs, raw)
             ELSE LET groups == zone.healthCheckEventsAdaptiveGroups
                      c == HealthGroups(groups, info[1], raw)
                      g == IF Len(groups) > 0
                           THEN addGauge(c, ZONE_HEALTH_CHECK_EVENTS_AVG,
                                         << <<(<<"zone">>), info[1].name>>,
                                            <<(<<"account">>), info[1].account>> >>,
                                         TotalEvents(groups) \div Len(groups))
                           ELSE c
                  IN  HealthMetrics(Tail(rows), zs, g)

\* What the upstream may answer to fetchHealthCheckMetrics: per zone no row
\* or one row with one group (the average of one group is its count)
HealthGroup(count) ==
    [count |-> count,
     dimensions |-> [healthStatus |-> <<"healthy">>, originIP |-> <<"192.0.2.1">>,
                     fqdn |-> <<"origin.example.com">>]]

HealthRowChoices(id) ==
    {<<>>} \cup {<<[zoneTag |-> id, healthCheckEventsAdaptiveGroups |-> <<HealthGroup(n)>>]>> :
                    n \in upstream.healthValues}

RECURSIVE HealthResponses(_)
HealthResponses(ids) ==
    IF ids = <<>> THEN {<<>>}
    ELSE {h \o t : h \in HealthRowChoices(Head(ids)), t \in HealthResponses(Tail(ids))}

\* Variant: slices of batchSize + 1 IDs, so that consecutive batches
\* share an ID
BatchesOverlapping(ids) ==
    [b \in 1..BatchCount(Len(ids)) |->
        SubSeq(ids, (b - 1) * config.batchSize + 1,
               IF b * config.batchSize + 1 < Len(ids)
               THEN b * config.batchSize + 1 ELSE Len(ids))]

\* The batch loop (468-471): zoneIDs.slice(i, i + batchSize) for each i
Batches(ids) ==
    [b \in 1..BatchCount(Len(ids)) |->
        SubSeq(ids, (b - 1) * config.batchSize + 1,
               IF b * config.batchSize < Len(ids) THEN b * config.batchSize ELSE Len(ids))]

\* The outcome of one client call: a failure (after the retries of the
\* client), if that category can fail, or one of the responses
CallOutcomes(category, responses) ==
    {[failed |-> TRUE, rows |-> <<>>] : x \in {category} \cap upstream.failing}
    \cup {[failed |-> FALSE, rows |-> r] : r \in responses}

BatchOutcomes(batchIDs) ==
    {[http |-> h, health |-> k] :
        h \in CallOutcomes("http", HTTPResponses(batchIDs)),
        k \in CallOutcomes("health", HealthResponses(batchIDs))}

RECURSIVE CycleOutcomes(_)
CycleOutcomes(batches) ==
    IF batches = <<>> THEN {<<>>}
    ELSE {<<h>> \o t : h \in BatchOutcomes(Head(batches)), t \in CycleOutcomes(Tail(batches))}

\* Variant: a failed category fetch is not caught
catchNone(outcome) == outcome

\* Effect.catchAll(() => Effect.succeed({ viewer: { zones: [] } })) (474, 595)
catchAll(outcome) ==
    IF outcome.failed THEN [failed |-> FALSE, rows |-> <<>>] ELSE outcome

\* The iterations of the batch loop; a failure that is not caught ends the
\* program with a failed exit
RECURSIVE BatchLoop(_, _, _)
BatchLoop(outcomes, zs, acc) ==
    IF outcomes = <<>> \/ ~acc.success THEN acc
    ELSE LET httpData == catchAll(Head(outcomes).http)
             healthData == catchAll(Head(outcomes).health)
         IN  IF httpData.failed \/ healthData.failed
             THEN [acc EXCEPT !.success = FALSE]
             ELSE BatchLoop(Tail(outcomes), zs,
                    [acc EXCEPT !.raw = HealthMetrics(healthData.rows, zs,
                                           HTTPMetrics(httpData.rows, zs, acc.raw))])

\* collectProgram once the inventory is fetched (463-910)
collectProgram(zs, outcomes) ==
    BatchLoop(outcomes, zs, [success |-> TRUE, raw |-> ExporterMetrics(zs)])

(***************************************************************************)
(* collectMetrics: the state update (index.ts 916-946)                     *)
(***************************************************************************)
\* Variant: the delta is always value - prev, a decrease is not a reset
UpdateCounterSigned(cs, key, value) ==
    IF key \in DOMAIN cs
    THEN [prev |-> value, accumulated |-> cs[key].accumulated + (value - cs[key].prev)]
    ELSE [prev |-> value, accumulated |-> value]

\* Variant: a new counter starts accumulating from zero
UpdateCounterFromZero(cs, key, value) ==
    IF key \in DOMAIN cs
    THEN LET existing == cs[key]
             delta == IF value < existing.prev THEN value ELSE value - existing.prev
         IN  [prev |-> value, accumulated |-> existing.accumulated + delta]
    ELSE [prev |-> value, accumulated |-> 0]

\* Variant: prev is kept when the raw value has decreased
UpdateCounterKeepingPrev(cs, key, value) ==
    IF key \in DOMAIN cs
    THEN LET existing == cs[key]
             delta == IF value < existing.prev THEN value ELSE value - existing.prev
         IN  [prev |-> IF value < existing.prev THEN existing.prev ELSE value,
              accumulated |-> existing.accumulated + delta]
    ELSE [prev |-> value, accumulated |-> value]

UpdateCounter(cs, key, value) ==
    IF key \in DOMAIN cs
    THEN LET existing == cs[key]
             delta == IF value < existing.prev THEN value ELSE value - existing.prev
         IN  [prev |-> value, accumulated |-> existing.accumulated + delta]
    ELSE [prev |-> value, accumulated |-> value]

\* Variant: the counters are rebuilt from the result of the cycle alone
UpdateCountersReplacing(cs, rawCounters) ==
    [k \in DOMAIN rawCounters |-> UpdateCounter(cs, k, rawCounters[k])]

UpdateCounters(cs, rawCounters) ==
    [k \in DOMAIN cs \cup DOMAIN rawCounters |->
        IF k \in DOMAIN rawCounters THEN UpdateCounter(cs, k, rawCounters[k]) ELSE cs[k]]

UpdateGauges(gs, rawGauges) ==
    [k \in DOMAIN gs \cup DOMAIN rawGauges |->
        IF k \in DOMAIN rawGauges THEN rawGauges[k] ELSE gs[k]]

(***************************************************************************)
(* serializeMetrics (index.ts 952-1022)                                    *)
(***************************************************************************)
\* The entries of METRICS (PrometheusRegistry) for the modelled names
METRICS == <<
    [name |-> ZONE_REQUESTS_TOTAL, help |-> <<"Number of requests for zone">>],
    [name |-> ZONE_REQUESTS_CACHED, help |-> <<"Number of cached requests for zone">>],
    [name |-> EXPORTER_UP, help |-> <<"Cloudflare exporter is up">>],
    [name |-> ZONES_TOTAL, help |-> <<"Total number of zones">>],
    [name |-> ZONES_FILTERED, help |-> <<"Zones after filtering">>],
    [name |-> ZONES_PROCESSED, help |-> <<"Zones actually processed">>],
    [name |-> ZONE_HEALTH_CHECK_EVENTS_ORIGIN_COUNT, help |-> <<"Health check events per origin">>],
    [name |-> ZONE_HEALTH_CHECK_EVENTS_AVG, help |-> <<"Average health check events">>],
    [name |-> ZONE_FIREWALL_EVENTS_COUNT, help |-> <<"Count of firewall events">>] >>

getHelp(name) ==
    LET found == SelectSeq(METRICS, LAMBDA m : m.name = name)
    IN  IF found = <<>> THEN name ELSE found[1].help

RECURSIVE Flatten(_)
Flatten(seqs) == IF seqs = <<>> THEN <<>> ELSE Head(seqs) \o Flatten(Tail(seqs))

\* metricsByName.get(name): the counter entries of that name, then the gauge
\* entries (the enumeration order of the keys of one map is left open)
ValuesByName(st, name) ==
    LET ck == SetToSeq({k \in DOMAIN st.counters : parseKey(k).name = name})
        gk == SetToSeq({k \in DOMAIN st.gauges : parseKey(k).name = name})
    IN  [i \in 1..Len(ck) |-> [labels |-> parseKey(ck[i]).labels,
                               value |-> st.counters[ck[i]].accumulated,
                               type |-> "counter"]]
        \o
        [i \in 1..Len(gk) |-> [labels |-> parseKey(gk[i]).labels,
                               value |-> st.gauges[gk[i]],
                               type |-> "gauge"]]

\* Variant: the entries are not grouped, each sample carries its own HELP
\* and TYPE lines
MetricLinesPerSample(st, name) ==
    LET values == ValuesByName(st, name)
    IN  Flatten([i \in 1..Len(values) |->
            << <<"# HELP ">> \o name \o <<" ">> \o getHelp(name),
               <<"# TYPE ">> \o name \o <<" ", values[i].type>>,
               name \o values[i].labels \o <<" ", ToString(values[i].value)>> >>])

\* The lines pushed for one metric name: HELP, TYPE, then the samples
MetricLines(st, name) ==
    LET values == ValuesByName(st, name)
    IN  IF Len(values) = 0 THEN <<>>
        ELSE << <<"# HELP ">> \o name \o <<" ">> \o getHelp(name),
                <<"# TYPE ">> \o name \o <<" ", values[1].type>> >>
             \o [i \in 1..Len(values) |->
                    name \o values[i].labels \o <<" ", ToString(values[i].value)>>]

\* formatLabels of PrometheusRegistry: {k="v",...} in insertion order, with
\* backslash, double quote and newline escaped in the values
EscapeToken(t) ==
    CASE t = "\\" -> <<"\\", "\\">>
      [] t = "\"" -> <<"\\", "\"">>
      [] t = "\n" -> <<"\\", "n">>
      [] OTHER -> <<t>>

EscapeValue(v) == Flatten([i \in 1..Len(v) |-> EscapeToken(v[i])])

formatLabels(labels) ==
    IF Len(labels) = 0 THEN <<>>
    ELSE LET formatted == [i \in 1..Len(labels) |->
                             labels[i][1] \o <<"=", "\"">> \o EscapeValue(labels[i][2]) \o <<"\"">>]
         IN  <<"{">> \o Join(formatted, <<",">>) \o <<"}">>

\* Variant: no sentinel, the elapsed time is computed from lastFetch = 0
StalenessNoSentinel(st, t) == t - st.lastFetch

\* Math.round((Date.now() - lastFetch) / 1000), or -1 before any success
Staleness(st, t) == IF st.lastFetch > 0 THEN t - st.lastFetch ELSE -1

serializeMetrics(st, t) ==
    LET names == SetToSeq({parseKey(k).name : k \in DOMAIN st.counters \cup DOMAIN st.gauges})
        metricLines == Flatten([i \in 1..Len(names) |-> MetricLines(st, names[i])])
        stale == << <<"# Metrics staleness: ", ToString(Staleness(st, t)), "s">> >>
        err == IF st.lastError # undefined
               THEN << <<"# Last error: ", st.lastError>> >> ELSE <<>>
    IN  [status |-> 200, lines |-> metricLines \o stale \o err]

statusResponse(st) ==
    [status |-> 200,
     lines |-> << <<"lastFetch", ToString(st.lastFetch), "lastError", st.lastError,
                   "counterCount", ToString(Cardinality(DOMAIN st.counters)),
                   "gaugeCount", ToString(Cardinality(DOMAIN st.gauges))>> >>]

notFound == [status |-> 404, lines |-> << <<"Not Found">> >>]

(***************************************************************************)
(* The actor: initial state and handlers                                   *)
(***************************************************************************)
\* The state of a new actor with nothing in storage (317-322)
emptyState ==
    [counters |-> EmptyMap, gauges |-> EmptyMap, lastFetch |-> 0, lastError |-> undefined]

InitState(start) ==
    /\ counters = emptyState.counters
    /\ gauges = emptyState.gauges
    /\ lastFetch = emptyState.lastFetch
    /\ lastError = emptyState.lastError
    /\ stored = <<>>
    /\ currentAlarm = null
    /\ alarmPc = "idle"
    /\ running = 0
    /\ zones = <<>>
    /\ exit = <<>>
    /\ upstreamCalls = 0
    /\ response = <<>>
    /\ lastCycle = "none"
    /\ lastRaw = EmptyMap
    /\ exampleAt = 0
    /\ cycleStart = null
    /\ now = start

Init ==
    /\ InitState(1)
    /\ interval \in Intervals
    /\ batchSize = 10
    /\ env = defaultEnv
    /\ upstream = [zones |-> <<Z1, Z2>>, values |-> {1, 2}, gaugeValues |-> {0, 1},
                   healthValues |-> {}, maxRows |-> 1, failing |-> {},
                   maxEvents |-> 0]
    /\ input = <<>>
    /\ output = <<>>
    /\ client = <<>>

\* The clock advances
Tick ==
    /\ now < MaxTime
    /\ now' = now + 1
    /\ response' = <<>>
    /\ UNCHANGED <<interval, batchSize, env, upstream, counters, gauges, lastFetch, lastError, stored,
                   currentAlarm, alarmPc, running, zones, exit, upstreamCalls,
                   lastCycle, lastRaw, exampleAt,
                   cycleStart, funVars>>

\* Positions at which the alarm handler awaits the upstream, so that a
\* request can be delivered to the actor
AwaitPoints == {"fetchInventory", "fetchCategories"}

\* Variant: the request also asks the upstream for the zones
HandleFetchCollecting(path) ==
    /\ alarmPc \in {"idle"} \cup AwaitPoints
    /\ currentAlarm' = IF currentAlarm = null THEN now + interval ELSE currentAlarm
    /\ upstreamCalls' = upstreamCalls + 1
    /\ response' = [request |-> path] @@
                   (IF path = "/metrics" THEN serializeMetrics(state, now)
                    ELSE IF path = "/status" THEN statusResponse(state)
                    ELSE notFound)
    /\ UNCHANGED <<now, interval, batchSize, env, upstream, counters, gauges, lastFetch, lastError,
                   stored, alarmPc, running, zones, exit,
                   lastCycle, lastRaw, exampleAt,
                   cycleStart, funVars>>

\* Variant: a request that finds no alarm set runs the alarm handler itself
HandleFetchRefreshing(path) ==
    /\ alarmPc \in {"idle"} \cup AwaitPoints
    /\ currentAlarm' = currentAlarm
    /\ IF currentAlarm = null
       THEN /\ alarmPc' = "fetchInventory"
            /\ running' = running + 1
       ELSE UNCHANGED <<alarmPc, running>>
    /\ response' = [request |-> path] @@
                   (IF path = "/metrics" THEN serializeMetrics(state, now)
                    ELSE IF path = "/status" THEN statusResponse(state)
                    ELSE notFound)
    /\ UNCHANGED <<now, interval, batchSize, env, upstream, counters, gauges, lastFetch, lastError,
                   stored, zones, exit, upstreamCalls,
                   lastCycle, lastRaw, exampleAt,
                   cycleStart, funVars>>

\* Variant: a request is refused while the latest cycle has failed or no
\* cycle has succeeded yet
HandleFetchUnavailable(path) ==
    /\ alarmPc \in {"idle"} \cup AwaitPoints
    /\ currentAlarm' = IF currentAlarm = null THEN now + interval ELSE currentAlarm
    /\ response' = [request |-> path] @@
                   (IF lastError # undefined \/ lastFetch = 0
                    THEN [status |-> 503, lines |-> << <<"Service Unavailable">> >>]
                    ELSE IF path = "/metrics" THEN serializeMetrics(state, now)
                    ELSE IF path = "/status" THEN statusResponse(state)
                    ELSE notFound)
    /\ UNCHANGED <<now, interval, batchSize, env, upstream, counters, gauges, lastFetch,
                   lastError, stored, alarmPc, running, zones, exit, upstreamCalls,
                   lastCycle, lastRaw, exampleAt,
                   cycleStart, funVars>>

\* fetch(request): arm the alarm if none is set, then answer from the state
\* (338-364).  storage.getAlarm() is null while the alarm handler runs and
\* has not set a new alarm.
\* Variant: every request sets the alarm anew
HandleFetchRearming(path) ==
    /\ alarmPc \in {"idle"} \cup AwaitPoints
    /\ currentAlarm' = now + interval
    /\ response' = [request |-> path] @@
                   (IF path = "/metrics" THEN serializeMetrics(state, now)
                    ELSE IF path = "/status" THEN statusResponse(state)
                    ELSE notFound)
    /\ UNCHANGED <<now, interval, batchSize, env, upstream, counters, gauges, lastFetch, lastError,
                   stored, alarmPc, running, zones, exit, upstreamCalls,
                   lastCycle, lastRaw, exampleAt,
                   cycleStart, funVars>>

\* Variant: a request is also delivered between the state update of a
\* cycle and its storage.put
HandleFetchBeforeSave(path) ==
    /\ alarmPc \in {"idle", "save"} \cup AwaitPoints
    /\ currentAlarm' = IF currentAlarm = null THEN now + interval ELSE currentAlarm
    /\ response' = [request |-> path] @@
                   (IF path = "/metrics" THEN serializeMetrics(state, now)
                    ELSE IF path = "/status" THEN statusResponse(state)
                    ELSE notFound)
    /\ UNCHANGED <<now, interval, batchSize, env, upstream, counters, gauges, lastFetch, lastError,
                   stored, alarmPc, running, zones, exit, upstreamCalls,
                   lastCycle, lastRaw, exampleAt,
                   cycleStart, funVars>>

HandleFetch(path) ==
    /\ alarmPc \in {"idle"} \cup AwaitPoints
    /\ currentAlarm' = IF currentAlarm = null THEN now + interval ELSE currentAlarm
    /\ response' = [request |-> path] @@
                   (IF path = "/metrics" THEN serializeMetrics(state, now)
                    ELSE IF path = "/status" THEN statusResponse(state)
                    ELSE notFound)
    /\ UNCHANGED <<now, interval, batchSize, env, upstream, counters, gauges, lastFetch, lastError,
                   stored, alarmPc, running, zones, exit, upstreamCalls,
                   lastCycle, lastRaw, exampleAt,
                   cycleStart, funVars>>

\* The runtime invokes alarm() when the alarm is due (369); it runs one
\* alarm handler at a time and clears the alarm when the handler starts.
AlarmStart ==
    /\ alarmPc = "idle"
    /\ currentAlarm # null
    /\ now >= currentAlarm
    /\ alarmPc' = "fetchInventory"
    /\ running' = running + 1
    /\ currentAlarm' = null
    /\ response' = <<>>
    /\ cycleStart' = now
    /\ UNCHANGED <<now, interval, batchSize, env, upstream, counters, gauges, lastFetch, lastError,
                   stored, zones, exit, upstreamCalls, lastCycle, lastRaw,
                   exampleAt, funVars>>

\* Variant: the exporter gauges are written to the state as soon as the
\* inventory is known
FetchInventoryWriting ==
    /\ alarmPc = "fetchInventory"
    /\ zones' = upstream.zones
    /\ gauges' = UpdateGauges(gauges, ExporterMetrics(upstream.zones).gauges)
    /\ upstreamCalls' = upstreamCalls + 2
    /\ alarmPc' = "fetchCategories"
    /\ response' = <<>>
    /\ UNCHANGED <<now, interval, batchSize, env, upstream, counters, lastFetch, lastError,
                   stored, currentAlarm, running, exit, lastCycle, lastRaw,
                   exampleAt,
                   cycleStart, funVars>>

\* fetchZones / fetchAccounts succeed (421-425)
FetchInventory ==
    /\ alarmPc = "fetchInventory"
    /\ zones' = upstream.zones
    /\ upstreamCalls' = upstreamCalls + 2
    /\ alarmPc' = "fetchCategories"
    /\ response' = <<>>
    /\ UNCHANGED <<now, interval, batchSize, env, upstream, counters, gauges, lastFetch, lastError,
                   stored, currentAlarm, running, exit, lastCycle, lastRaw,
                   exampleAt,
                   cycleStart, funVars>>

\* Variant: a failed cycle starts the state afresh
alarmFailureResetting(st, message) == [emptyState EXCEPT !.lastError = message]

\* The catch branch of alarm() (376-378): only lastError changes
alarmFailure(st, message) == [st EXCEPT !.lastError = message]

\* Variant: a failed inventory fetch is caught and replaced by no zones
CollectFailCaught ==
    /\ alarmPc = "fetchInventory"
    /\ \E failed \in 1..2 : upstreamCalls' = upstreamCalls + failed
    /\ zones' = <<>>
    /\ alarmPc' = "fetchCategories"
    /\ response' = <<>>
    /\ UNCHANGED <<now, interval, batchSize, env, upstream, counters, gauges, lastFetch,
                   lastError, stored, currentAlarm, running, exit, lastCycle, lastRaw,
                   exampleAt,
                   cycleStart, funVars>>

\* fetchZones or fetchAccounts fails: the exit is a failure, collectMetrics
\* throws (944-946) and alarm() records the message
CollectFail ==
    /\ alarmPc = "fetchInventory"
    /\ \E failed \in 1..2 : upstreamCalls' = upstreamCalls + failed
    /\ exit' = <<[success |-> FALSE, counters |-> EmptyMap, gauges |-> EmptyMap,
                   outcomes |-> <<>>]>>
    /\ LET st == alarmFailure(state, FailureMessage)
       IN  /\ counters' = st.counters
           /\ gauges' = st.gauges
           /\ lastFetch' = st.lastFetch
           /\ lastError' = st.lastError
    /\ lastCycle' = "failed"
    /\ alarmPc' = "save"
    /\ response' = <<>>
    /\ UNCHANGED <<now, interval, batchSize, env, upstream, stored, currentAlarm, running, zones,
                   lastRaw, exampleAt,
                   cycleStart, funVars>>

\* History: the latest raw value reconciled for each counter key
Observe(last, rawCounters) ==
    [k \in DOMAIN last \cup DOMAIN rawCounters |->
        IF k \in DOMAIN rawCounters THEN rawCounters[k] ELSE last[k]]

\* History: progress of the observations of ExampleKey along Example
Example == <<100, 150, 40, 90>>
ExampleKey ==
    metricKey(ZONE_REQUESTS_TOTAL,
              << <<(<<"zone">>), Z1.name>>,
                 <<(<<"account">>), normalizeAccountName(Z1.account)>> >>)

FollowExample(at, rawCounters) ==
    IF ExampleKey \notin DOMAIN rawCounters THEN at
    ELSE IF at >= 0 /\ at < Len(Example) /\ rawCounters[ExampleKey] = Example[at + 1]
         THEN at + 1
         ELSE -1

\* The success branch of collectMetrics (918-943)
applyExit(st, raw) ==
    [st EXCEPT !.counters = UpdateCounters(st.counters, raw.counters),
               !.gauges = UpdateGauges(st.gauges, raw.gauges)]

\* Variant: the error of an earlier cycle is kept
alarmSuccessKeepingError(st, t) == [st EXCEPT !.lastFetch = t]

\* The try branch of alarm() after collectMetrics returned (374-375)
alarmSuccess(st, t) == [st EXCEPT !.lastFetch = t, !.lastError = undefined]

\* The category fetches of all batches return (each caught failure is
\* replaced by the empty result), the program exits, and on success the
\* state is updated without a further await (916-943, 374-375); a failed
\* exit throws and alarm() records the message (944-946, 376-378)
CollectSucceed ==
    /\ alarmPc = "fetchCategories"
    /\ \E outcomes \in CycleOutcomes(Batches(zoneIDs(zones))) :
          LET result == collectProgram(zones, outcomes)
              raw == result.raw
              st == IF result.success
                    THEN alarmSuccess(applyExit(state, raw), now)
                    ELSE alarmFailure(state, FailureMessage)
          IN  /\ exit' = <<[success |-> result.success, counters |-> raw.counters,
                            gauges |-> raw.gauges, outcomes |-> outcomes]>>
              /\ counters' = st.counters
              /\ gauges' = st.gauges
              /\ lastFetch' = st.lastFetch
              /\ lastError' = st.lastError
              /\ lastRaw' = IF result.success THEN Observe(lastRaw, raw.counters)
                            ELSE lastRaw
              /\ exampleAt' = IF result.success
                              THEN FollowExample(exampleAt, raw.counters)
                              ELSE exampleAt
              /\ lastCycle' = IF result.success THEN "ok" ELSE "failed"
    /\ upstreamCalls' = upstreamCalls + 2 * BatchCount(Len(zoneIDs(zones)))
    /\ alarmPc' = "save"
    /\ response' = <<>>
    /\ UNCHANGED <<now, interval, batchSize, env, upstream, stored, currentAlarm, running,
                   zones, cycleStart, funVars>>

\* Variant: the next alarm is set only after a successful cycle
SaveAndRescheduleOnSuccess ==
    /\ alarmPc = "save"
    /\ stored' = <<state>>
    /\ currentAlarm' = IF exit[1].success THEN now + interval ELSE currentAlarm
    /\ alarmPc' = "idle"
    /\ running' = running - 1
    /\ zones' = <<>>
    /\ exit' = <<>>
    /\ upstreamCalls' = 0
    /\ response' = <<>>
    /\ UNCHANGED <<now, interval, batchSize, env, upstream, counters, gauges, lastFetch, lastError,
                   lastCycle, lastRaw, exampleAt,
                   cycleStart, funVars>>

\* storage.put("metrics", state) and storage.setAlarm(Date.now() + interval)
\* (381-383); the handler returns
SaveAndReschedule ==
    /\ alarmPc = "save"
    /\ stored' = <<state>>
    /\ currentAlarm' = now + interval
    /\ alarmPc' = "idle"
    /\ running' = running - 1
    /\ zones' = <<>>
    /\ exit' = <<>>
    /\ upstreamCalls' = 0
    /\ response' = <<>>
    /\ UNCHANGED <<now, interval, batchSize, env, upstream, counters, gauges, lastFetch, lastError,
                   lastCycle, lastRaw, exampleAt,
                   cycleStart, funVars>>

Next ==
    \/ Tick
    \/ \E path \in Paths : HandleFetch(path)
    \/ AlarmStart
    \/ FetchInventory
    \/ CollectFail
    \/ CollectSucceed
    \/ SaveAndReschedule

Spec == Init /\ [][Next]_vars

\* Time passes, the runtime delivers a due alarm, and the upstream calls
\* and storage operations the alarm handler awaits complete
Fairness ==
    /\ WF_vars(Tick)
    /\ WF_vars(AlarmStart)
    /\ WF_vars(FetchInventory \/ CollectFail)
    /\ WF_vars(CollectSucceed)
    /\ WF_vars(SaveAndReschedule)

\* The schedule does not depend on the data: one zone suffices
InitLive ==
    /\ InitState(1)
    /\ interval \in Intervals
    /\ batchSize = 10
    /\ env = defaultEnv
    /\ upstream = [zones |-> <<Z1>>, values |-> {1, 2}, gaugeValues |-> {0},
                   healthValues |-> {}, maxRows |-> 1, failing |-> {},
                   maxEvents |-> 0]
    /\ input = <<>>
    /\ output = <<>>
    /\ client = <<>>

SpecLive == InitLive /\ [][Next]_vars /\ Fairness

\* The scenario of one zone whose request count takes arbitrary values
\* among those of Example; the clock starts one second earlier, which
\* leaves room for the four cycles of Example
InitScenario ==
    /\ InitState(0)
    /\ interval = 1
    /\ batchSize = 10
    /\ env = defaultEnv
    /\ upstream = [zones |-> <<Z1>>, values |-> {40, 90, 100, 150}, gaugeValues |-> {0},
                   healthValues |-> {}, maxRows |-> 1, failing |-> {},
                   maxEvents |-> 0]
    /\ input = <<>>
    /\ output = <<>>
    /\ client = <<>>

SpecScenario == InitScenario /\ [][Next]_vars

\* Two zones fetched in batches of one; every category fetch can fail
InitSlices ==
    /\ InitState(0)
    /\ interval = MaxInterval
    /\ batchSize = 1
    /\ env = defaultEnv
    /\ upstream = [zones |-> <<Z1, Z2>>, values |-> {1}, gaugeValues |-> {0},
                   healthValues |-> {1}, maxRows |-> 1, failing |-> {"http", "health"},
                   maxEvents |-> 0]
    /\ input = <<>>
    /\ output = <<>>
    /\ client = <<>>

SpecSlices == InitSlices /\ [][Next]_vars

\* One zone for which a response can carry two rows
InitDuplicates ==
    /\ InitState(1)
    /\ interval \in Intervals
    /\ batchSize = 10
    /\ env = defaultEnv
    /\ upstream = [zones |-> <<Z1>>, values |-> {1}, gaugeValues |-> {0, 1},
                   healthValues |-> {1}, maxRows |-> 2, failing |-> {},
                   maxEvents |-> 0]
    /\ input = <<>>
    /\ output = <<>>
    /\ client = <<>>

SpecDuplicates == InitDuplicates /\ [][Next]_vars

(***************************************************************************)
(* Restart of the actor: a new instance is constructed (316-333)           *)
(***************************************************************************)
\* The instance is lost at any moment and a new one is constructed with
\* the field initialiser of state (317-322); the storage and the alarm
\* outlive it, and the runtime delivers again an alarm whose handler did
\* not return.
Restart ==
    /\ counters' = emptyState.counters
    /\ gauges' = emptyState.gauges
    /\ lastFetch' = emptyState.lastFetch
    /\ lastError' = emptyState.lastError
    /\ currentAlarm' = IF alarmPc \in {"idle", "loading"} THEN currentAlarm ELSE now
    /\ alarmPc' = "loading"
    /\ running' = 0
    /\ zones' = <<>>
    /\ exit' = <<>>
    /\ upstreamCalls' = 0
    /\ response' = <<>>
    /\ UNCHANGED <<now, interval, batchSize, env, upstream, stored, lastCycle, lastRaw,
                   exampleAt,
                   cycleStart, funVars>>

\* Variant: the constructor does not read the storage
LoadStateSkipped ==
    /\ alarmPc = "loading"
    /\ alarmPc' = "idle"
    /\ response' = <<>>
    /\ UNCHANGED <<now, interval, batchSize, env, upstream, counters, gauges, lastFetch,
                   lastError, stored, currentAlarm, running, zones, exit, upstreamCalls,
                   lastCycle, lastRaw, exampleAt,
                   cycleStart, funVars>>

\* The callback of blockConcurrencyWhile in the constructor (327-332):
\* until it returns no request and no alarm is delivered
LoadState ==
    /\ alarmPc = "loading"
    /\ LET st == IF stored # <<>> THEN stored[1] ELSE state
       IN  /\ counters' = st.counters
           /\ gauges' = st.gauges
           /\ lastFetch' = st.lastFetch
           /\ lastError' = st.lastError
    /\ alarmPc' = "idle"
    /\ response' = <<>>
    /\ UNCHANGED <<now, interval, batchSize, env, upstream, stored, currentAlarm, running,
                   zones, exit, upstreamCalls, lastCycle, lastRaw, exampleAt,
                   cycleStart, funVars>>

NextRestart ==
    \/ Next
    \/ Restart
    \/ LoadState

InitRestart ==
    /\ InitState(1)
    /\ interval \in Intervals
    /\ batchSize = 10
    /\ env = defaultEnv
    /\ upstream = [zones |-> <<Z1>>, values |-> {1, 2}, gaugeValues |-> {0},
                   healthValues |-> {}, maxRows |-> 1, failing |-> {},
                   maxEvents |-> 0]
    /\ input = <<>>
    /\ output = <<>>
    /\ client = <<>>

SpecRestart == InitRestart /\ [][NextRestart]_vars

(***************************************************************************)
(* metricKey applied to label objects built in any insertion order         *)
(***************************************************************************)
LabelKeys == {<<"zone">>, <<"account">>, <<"host">>}
LabelValues == {<<"a">>, <<"b">>}

\* The entry sequences of the label objects: no key occurs twice
LabelObjects ==
    {s \in UNION {[1..n -> LabelKeys \X LabelValues] : n \in 0..MaxLabels} :
        \A i, j \in 1..Len(s) : i # j => s[i][1] # s[j][1]}

\* The same key/value pairs inserted in another order
Reorderings(labels) ==
    {t \in LabelObjects :
        /\ Len(t) = Len(labels)
        /\ {t[i] : i \in 1..Len(t)} = {labels[i] : i \in 1..Len(labels)}}

InitKey ==
    /\ InitState(1)
    /\ interval = 1
    /\ batchSize = 10
    /\ env = defaultEnv
    /\ upstream = [zones |-> <<>>, values |-> {}, gaugeValues |-> {},
                   healthValues |-> {}, maxRows |-> 1, failing |-> {},
                   maxEvents |-> 0]
    /\ input \in [name : {ZONE_REQUESTS_TOTAL, ZONE_REQUESTS_CACHED}, labels : LabelObjects]
    /\ output = <<>>
    /\ client = <<>>

ApplyMetricKey ==
    /\ output' = <<[key |-> metricKey(input.name, input.labels), labels |-> input.labels]>>
    /\ UNCHANGED <<input, client, actorVars>>

ReorderLabels ==
    /\ \E t \in Reorderings(input.labels) : input' = [input EXCEPT !.labels = t]
    /\ UNCHANGED <<output, client, actorVars>>

NextKey == ApplyMetricKey \/ ReorderLabels

SpecKey == InitKey /\ [][NextKey]_vars

(***************************************************************************)
(* collectMetrics from the inventory to the calls of the batch loop        *)
(***************************************************************************)
\* The per-zone categories of the batch loop (473-690) and those inside
\* if (!config.freeTier) (709-814)
BasicCategories == {"http", "healthCheck", "adaptive", "edgeCountry", "requestMethod"}
PremiumCategories == {"colo", "coloError", "loadBalancer", "logpushZone", "sslCertificates"}

\* The client calls of one batch, in the order of the loop body; the
\* certificates are fetched zone by zone
RECURSIVE SSLCalls(_)
SSLCalls(batchIDs) ==
    IF batchIDs = <<>> THEN <<>>
    ELSE <<[category |-> "sslCertificates", ids |-> <<Head(batchIDs)>>]>>
         \o SSLCalls(Tail(batchIDs))

BatchCalls(batchIDs) ==
    <<[category |-> "http", ids |-> batchIDs],
      [category |-> "healthCheck", ids |-> batchIDs],
      [category |-> "adaptive", ids |-> batchIDs],
      [category |-> "edgeCountry", ids |-> batchIDs],
      [category |-> "requestMethod", ids |-> batchIDs]>>
    \o (IF ~config.freeTier
        THEN <<[category |-> "colo", ids |-> batchIDs],
               [category |-> "coloError", ids |-> batchIDs],
               [category |-> "loadBalancer", ids |-> batchIDs],
               [category |-> "logpushZone", ids |-> batchIDs]>>
             \o SSLCalls(batchIDs)
        ELSE <<>>)

\* The per-zone calls of a cycle: the loop over the batches of zoneIDs
CycleCalls(zs) ==
    LET batches == Batches(zoneIDs(zs))
    IN  Flatten([b \in 1..Len(batches) |-> BatchCalls(batches[b])])

\* Inventories of up to three zones, in any order; ID lists of the options
RECURSIVE Arrangements(_)
Arrangements(S) ==
    {<<>>} \cup UNION {{<<z>> \o t : t \in Arrangements(S \ {z})} : z \in S}

Inventories == Arrangements({Z1, Z2, Z3})
IDLists == {SetToSeq(S) : S \in SUBSET {"Z1", "Z2", "Z3"}}

InitFilter ==
    /\ InitState(1)
    /\ interval = 1
    /\ batchSize \in 1..MaxBatch
    /\ \E include \in IDLists, exclude \in IDLists, freeTier \in BOOLEAN :
          env = [defaultEnv EXCEPT !.zones = include, !.excludeZones = exclude,
                                   !.freeTier = freeTier]
    /\ \E inventory \in Inventories :
          upstream = [zones |-> inventory, values |-> {}, gaugeValues |-> {},
                      healthValues |-> {}, maxRows |-> 1, failing |-> {},
                   maxEvents |-> 0]
    /\ input = <<>>
    /\ output = <<>>
    /\ client = <<>>

\* collectMetrics from the fetched inventory (427-440) to the calls of
\* the batch loop (468-814)
PlanCycle ==
    /\ output = <<>>
    /\ output' = <<[filtered |-> filteredZones(upstream.zones),
                    zoneIDs |-> zoneIDs(upstream.zones),
                    batches |-> Batches(zoneIDs(upstream.zones)),
                    calls |-> CycleCalls(upstream.zones)]>>
    /\ UNCHANGED <<input, client, actorVars>>

NextFilter == PlanCycle

SpecFilter == InitFilter /\ [][NextFilter]_vars

(***************************************************************************)
(* getLabels (index.ts 415-419)                                            *)
(***************************************************************************)
\* { ...base, host }: the entries of base in their order, then host, which
\* takes the place of an entry of base with that key
Spread(base, key, value) ==
    IF \E i \in 1..Len(base) : base[i][1] = key
    THEN [i \in 1..Len(base) |-> IF base[i][1] = key THEN <<key, value>> ELSE base[i]]
    ELSE Append(base, <<key, value>>)

\* Variant: the option is not consulted
getLabelsAlways(base, host) ==
    IF host = <<>> THEN base ELSE Spread(base, <<"host">>, host)

\* !host holds of the empty string (and of an absent argument)
getLabels(base, host) ==
    IF config.excludeHost \/ host = <<>> THEN base
    ELSE Spread(base, <<"host">>, host)

\* The base labels of the callers have no host entry; the host dimension
\* of a row can be the empty string
BaseLabelObjects == {s \in LabelObjects : \A i \in 1..Len(s) : s[i][1] # <<"host">>}
Hosts == {<<>>} \cup LabelValues

InitLabels ==
    /\ InitState(1)
    /\ interval = 1
    /\ batchSize = 10
    /\ \E excludeHost \in BOOLEAN : env = [defaultEnv EXCEPT !.excludeHost = excludeHost]
    /\ upstream = [zones |-> <<>>, values |-> {}, gaugeValues |-> {},
                   healthValues |-> {}, maxRows |-> 1, failing |-> {},
                   maxEvents |-> 0]
    /\ input \in [base : BaseLabelObjects, host : Hosts]
    /\ output = <<>>
    /\ client = <<>>

ApplyGetLabels ==
    /\ output = <<>>
    /\ output' = <<getLabels(input.base, input.host)>>
    /\ UNCHANGED <<input, client, actorVars>>

NextLabels == ApplyGetLabels

SpecLabels == InitLabels /\ [][NextLabels]_vars

(***************************************************************************)
(* BuildDeniedMetricsSet (internal/metrics, Go)                            *)
(***************************************************************************)
\* The names BuildAllMetricsSet adds; cloudflare_zone_cache_hit_ratio is a
\* declared metric name that it does not add
BuildAllMetricsSet ==
    {"cloudflare_zone_requests_total", "cloudflare_zone_requests_cached",
     "cloudflare_zone_requests_ssl_encrypted", "cloudflare_zone_requests_content_type",
     "cloudflare_zone_requests_country", "cloudflare_zone_requests_status",
     "cloudflare_zone_requests_browser_map_page_views_count",
     "cloudflare_zone_requests_origin_status_country_host",
     "cloudflare_zone_requests_status_country_host", "cloudflare_zone_bandwidth_total",
     "cloudflare_zone_bandwidth_cached", "cloudflare_zone_bandwidth_ssl_encrypted",
     "cloudflare_zone_bandwidth_content_type", "cloudflare_zone_bandwidth_country",
     "cloudflare_zone_threats_total", "cloudflare_zone_threats_country",
     "cloudflare_zone_threats_type", "cloudflare_zone_pageviews_total",
     "cloudflare_zone_uniques_total", "cloudflare_zone_colocation_visits",
     "cloudflare_zone_colocation_edge_response_bytes",
     "cloudflare_zone_colocation_requests_total",
     "cloudflare_zone_firewall_events_count",
     "cloudflare_zone_health_check_events_origin_count",
     "cloudflare_worker_requests_count", "cloudflare_worker_errors_count",
     "cloudflare_worker_cpu_time", "cloudflare_worker_duration",
     "cloudflare_zone_pool_health_status", "cloudflare_zone_pool_requests_total",
     "cloudflare_logpush_failed_jobs_account_count",
     "cloudflare_logpush_failed_jobs_zone_count",
     "cloudflare_zone_customer_error_4xx_rate",
     "cloudflare_zone_customer_error_5xx_rate", "cloudflare_zone_edge_error_rate",
     "cloudflare_zone_origin_error_rate", "cloudflare_zone_bot_request_by_country",
     "cloudflare_zone_health_check_events_avg",
     "cloudflare_zone_firewall_bots_detected",
     "cloudflare_zone_firewall_request_action", "cloudflare_zone_request_method_count",
     "cloudflare_magic_transit_active_tunnels",
     "cloudflare_magic_transit_edge_colo_count",
     "cloudflare_magic_transit_healthy_tunnels",
     "cloudflare_magic_transit_tunnel_failures",
     "cloudflare_zone_certificate_validation_status",
     "cloudflare_zone_origin_response_duration_ms",
     "cloudflare_zone_colocation_visits_error",
     "cloudflare_zone_colocation_edge_response_bytes_error",
     "cloudflare_zone_colocation_requests_total_error"}

\* Variant: a name that is not a metric is passed over
RECURSIVE BuildDeniedMetricsSetLenient(_, _)
BuildDeniedMetricsSetLenient(metricsDenylist, deniedMetricsSet) ==
    IF metricsDenylist = <<>> THEN [set |-> <<deniedMetricsSet>>, err |-> <<>>]
    ELSE IF Head(metricsDenylist) \notin BuildAllMetricsSet
    THEN BuildDeniedMetricsSetLenient(Tail(metricsDenylist), deniedMetricsSet)
    ELSE BuildDeniedMetricsSetLenient(Tail(metricsDenylist),
                                      deniedMetricsSet \cup {Head(metricsDenylist)})

\* The loop over metricsDenylist, from the set built so far: the result is
\* (set, nil) or (nil, error); nil is <<>>
RECURSIVE BuildDeniedMetricsSet(_, _)
BuildDeniedMetricsSet(metricsDenylist, deniedMetricsSet) ==
    IF metricsDenylist = <<>> THEN [set |-> <<deniedMetricsSet>>, err |-> <<>>]
    ELSE IF Head(metricsDenylist) \notin BuildAllMetricsSet
    THEN [set |-> <<>>, err |-> <<[metric |-> Head(metricsDenylist)]>>]
    ELSE BuildDeniedMetricsSet(Tail(metricsDenylist),
                               deniedMetricsSet \cup {Head(metricsDenylist)})

\* Names a denylist can hold: metrics, a declared name that is not in the
\* set of all metrics, and a name that is no metric
ListedNames ==
    {"cloudflare_zone_requests_total", "cloudflare_zone_threats_total",
     "cloudflare_zone_bandwidth_total", "cloudflare_zone_cache_hit_ratio",
     "non_existent_metric"}

InitDenied ==
    /\ InitState(1)
    /\ interval = 1
    /\ batchSize = 10
    /\ env = defaultEnv
    /\ upstream = [zones |-> <<>>, values |-> {}, gaugeValues |-> {},
                   healthValues |-> {}, maxRows |-> 1, failing |-> {},
                   maxEvents |-> 0]
    /\ input \in UNION {[1..n -> ListedNames] : n \in 0..MaxNames}
    /\ output = <<>>
    /\ client = <<>>

ApplyBuildDeniedMetricsSet ==
    /\ output = <<>>
    /\ output' = <<BuildDeniedMetricsSet(input, {})>>
    /\ UNCHANGED <<input, client, actorVars>>

NextDenied == ApplyBuildDeniedMetricsSet

SpecDenied == InitDenied /\ [][NextDenied]_vars

(***************************************************************************)
(* getTimeRange, in seconds (CloudflareClient.ts 695-704)                  *)
(***************************************************************************)
\* Variant: the seconds of the call time are kept
getTimeRangeUntruncated(t) ==
    LET maxtime == t - config.scrapeDelay
    IN  [mintime |-> maxtime - config.timeWindow, maxtime |-> maxtime]

\* new Date() at time t; setSeconds(0, 0) puts it back to the start of its
\* minute; then scrapeDelay and timeWindow are taken off in turn
getTimeRange(t) ==
    LET minute == t - (t % 60)
        maxtime == minute - config.scrapeDelay
    IN  [mintime |-> maxtime - config.timeWindow, maxtime |-> maxtime]

\* Times of the call over two minutes, and some settings of the two options
CallTimes == {600 + k : k \in 0..MaxOffset}
ScrapeDelays == {0, 45, 300}
TimeWindows == {0, 60, 90}

InitWindow ==
    /\ InitState(1)
    /\ interval = 1
    /\ batchSize = 10
    /\ \E delay \in ScrapeDelays, window \in TimeWindows :
          env = [defaultEnv EXCEPT !.scrapeDelay = delay, !.timeWindow = window]
    /\ upstream = [zones |-> <<>>, values |-> {}, gaugeValues |-> {},
                   healthValues |-> {}, maxRows |-> 1, failing |-> {},
                   maxEvents |-> 0]
    /\ input \in CallTimes
    /\ output = <<>>
    /\ client = <<>>

\* A category fetch computes its window when it is called
ApplyGetTimeRange ==
    /\ output = <<>>
    /\ output' = <<getTimeRange(input)>>
    /\ UNCHANGED <<input, client, actorVars>>

NextWindow == ApplyGetTimeRange

SpecWindow == InitWindow /\ [][NextWindow]_vars

(***************************************************************************)
(* CloudflareClientLive: rate limiter and retry (CloudflareClient.ts)      *)
(***************************************************************************)
\* 1000 / config.rateLimitRps, in units of 125 ms at the default of 4
rateLimitIntervalMs == 2

\* Schedule.recurs(3) of retrySchedule
maxRetries == 3

\* What one dispatch can meet: fetch() rejects (network error), or a
\* response with a status and, for GraphQL, possibly an errors array
NetworkFailure == [kind |-> "throw", status |-> 0, errors |-> FALSE]
HttpResponse(status, errors) == [kind |-> "http", status |-> status, errors |-> errors]
OkResponse == HttpResponse(200, FALSE)

\* getAuthHeaders throws while the request is built (682-693, 717): no
\* request is sent
AuthenticationFailure == [kind |-> "auth", status |-> 0, errors |-> FALSE]

AllResponses ==
    {NetworkFailure, OkResponse, HttpResponse(200, TRUE), HttpResponse(404, FALSE),
     HttpResponse(429, FALSE), HttpResponse(503, FALSE)}

\* The try/catch of Effect.tryPromise in graphql (709-757): the error the
\* attempt fails with, <<>> when it succeeds; statusCode 0 is undefined
tryPromise(reply) ==
    IF reply.kind \in {"throw", "auth"}
    THEN <<[tag |-> "CloudflareApiError", statusCode |-> 0, retryable |-> TRUE]>>
    ELSE IF reply.status = 429
    THEN <<[tag |-> "CloudflareApiError", statusCode |-> 429, retryable |-> TRUE]>>
    ELSE IF ~(reply.status >= 200 /\ reply.status <= 299)
    THEN <<[tag |-> "CloudflareApiError", statusCode |-> reply.status,
            retryable |-> reply.status >= 500]>>
    ELSE IF reply.errors
    THEN <<[tag |-> "GraphQLError", statusCode |-> 0, retryable |-> FALSE]>>
    ELSE <<>>

\* Variant: every failure is retried
isRetryableAlways(error) == TRUE

isRetryable(error) ==
    IF error.tag = "GraphQLError" THEN FALSE
    ELSE IF error.statusCode = 429 THEN TRUE
    ELSE IF error.statusCode # 0 /\ error.statusCode >= 500 THEN TRUE
    ELSE error.retryable

\* One upstream call of a fiber: position, end of its sleep, the responses
\* its attempts have met, and the error it failed with
newCall == [pc |-> "rateLimit", wakeAt |-> 0, attempts |-> <<>>, error |-> <<>>]

InitClientWith(fibers, responses, credentials) ==
    /\ InitState(1)
    /\ interval = 1
    /\ batchSize = 10
    /\ env = defaultEnv
    /\ upstream = [zones |-> <<>>, values |-> {}, gaugeValues |-> {},
                   healthValues |-> {}, maxRows |-> 1, failing |-> {},
                   maxEvents |-> 0]
    /\ input = <<>>
    /\ output = <<>>
    /\ client = [now |-> rateLimitIntervalMs, lastRequestTime |-> 0,
                 calls |-> [f \in fibers |-> newCall],
                 dispatches |-> <<>>, responses |-> responses,
                 credentials |-> credentials]

\* A client with an API token or an API key and email configured
InitClient(fibers, responses) == InitClientWith(fibers, responses, TRUE)

\* Date.now() advances
ClientTick ==
    /\ client.now < MaxClock
    /\ client' = [client EXCEPT !.now = @ + 1]
    /\ UNCHANGED <<input, output, actorVars>>

\* rateLimit up to its sleep (665-673): without a wait it goes on to set
\* lastRequestTime (675), and the request is dispatched
RateLimit(f) ==
    /\ client.calls[f].pc = "rateLimit"
    /\ LET elapsed == client.now - client.lastRequestTime
           waitTime == IF rateLimitIntervalMs - elapsed > 0
                       THEN rateLimitIntervalMs - elapsed ELSE 0
       IN  IF waitTime > 0
           THEN client' = [client EXCEPT !.calls[f].pc = "sleeping",
                                         !.calls[f].wakeAt = client.now + waitTime]
           ELSE client' = [client EXCEPT !.calls[f].pc = "fetching",
                                         !.lastRequestTime = client.now,
                                         !.dispatches = IF client.credentials
                                                        THEN Append(@, client.now)
                                                        ELSE @]
    /\ UNCHANGED <<input, output, actorVars>>

\* Effect.sleep is over: lastRequestTime is set (675) and the request is
\* dispatched
Wake(f) ==
    /\ client.calls[f].pc = "sleeping"
    /\ client.now >= client.calls[f].wakeAt
    /\ client' = [client EXCEPT !.calls[f].pc = "fetching",
                                !.lastRequestTime = client.now,
                                !.dispatches = IF client.credentials
                                               THEN Append(@, client.now) ELSE @]
    /\ UNCHANGED <<input, output, actorVars>>

\* Variant: a retry re-runs the request alone, without rateLimit
RespondRetryingRequest(f) ==
    /\ client.calls[f].pc = "fetching"
    /\ \E reply \in IF client.credentials THEN client.responses
                      ELSE {AuthenticationFailure} :
          LET failure == tryPromise(reply)
              attempts == Append(client.calls[f].attempts, reply)
          IN  client' =
                IF failure = <<>>
                THEN [client EXCEPT !.calls[f].pc = "succeeded",
                                    !.calls[f].attempts = attempts]
                ELSE IF isRetryable(failure[1]) /\ Len(attempts) <= maxRetries
                THEN [client EXCEPT !.calls[f].pc = "fetching",
                                    !.calls[f].attempts = attempts]
                ELSE [client EXCEPT !.calls[f].pc = "failed",
                                    !.calls[f].attempts = attempts,
                                    !.calls[f].error = failure]
    /\ UNCHANGED <<input, output, actorVars>>

\* The attempt ends; Effect.retry re-runs the effect, rateLimit included,
\* while isRetryable holds and the schedule has recurrences left (759-763)
Respond(f) ==
    /\ client.calls[f].pc = "fetching"
    /\ \E reply \in IF client.credentials THEN client.responses
                      ELSE {AuthenticationFailure} :
          LET failure == tryPromise(reply)
              attempts == Append(client.calls[f].attempts, reply)
          IN  client' =
                IF failure = <<>>
                THEN [client EXCEPT !.calls[f].pc = "succeeded",
                                    !.calls[f].attempts = attempts]
                ELSE IF isRetryable(failure[1]) /\ Len(attempts) <= maxRetries
                THEN [client EXCEPT !.calls[f].pc = "rateLimit",
                                    !.calls[f].attempts = attempts]
                ELSE [client EXCEPT !.calls[f].pc = "failed",
                                    !.calls[f].attempts = attempts,
                                    !.calls[f].error = failure]
    /\ UNCHANGED <<input, output, actorVars>>

NextClient ==
    \/ ClientTick
    \/ \E f \in DOMAIN client.calls : RateLimit(f)
    \/ \E f \in DOMAIN client.calls : Wake(f)
    \/ \E f \in DOMAIN client.calls : Respond(f)

\* One call that can meet every kind of reply
InitRetry == InitClient({"call"}, AllResponses)

SpecRetry == InitRetry /\ [][NextClient]_vars

\* One call through a client with or without credentials
InitAuth ==
    \E credentials \in BOOLEAN : InitClientWith({"call"}, AllResponses, credentials)

SpecAuth == InitAuth /\ [][NextClient]_vars

\* The per-zone firewall-rule fetches of one cycle, run by Effect.all
\* with concurrency sslConcurrency (5 by default): three zones, one fiber
\* each, all through the one client
InitLimiter == InitClient({"zone1", "zone2", "zone3"}, {OkResponse})

SpecLimiter == InitLimiter /\ [][NextClient]_vars

(***************************************************************************)
(* Adaptive metrics: origin status rows (index.ts 630-660)                 *)
(***************************************************************************)
MaxGroups == 2

ZONE_REQUESTS_ORIGIN_STATUS_COUNTRY_HOST ==
    <<"cloudflare_zone_requests_origin_status_country_host">>
ZONE_ORIGIN_RESPONSE_DURATION_MS == <<"cloudflare_zone_origin_response_duration_ms">>
ZONE_CUSTOMER_ERROR_4XX_RATE == <<"cloudflare_zone_customer_error_4xx_rate">>
ZONE_CUSTOMER_ERROR_5XX_RATE == <<"cloudflare_zone_customer_error_5xx_rate">>

\* String(status) of a number: one token holding its decimal digits
String(n) == <<ToString(n)>>

\* The labels of one httpRequestsAdaptiveGroups row
adaptiveLabels(group, info) ==
    getLabels(<< <<(<<"zone">>), info.name>>,
                 <<(<<"account">>), info.account>>,
                 <<(<<"status">>), String(group.dimensions.originResponseStatus)>>,
                 <<(<<"country">>), group.dimensions.clientCountryName>> >>,
              group.dimensions.clientRequestHTTPHost)

\* Variant of the loop body: 499 is classified like any other 4xx status
AdaptiveGroupCounting499(group, info, raw) ==
    LET status == group.dimensions.originResponseStatus
        labels == adaptiveLabels(group, info)
        c == addCounter(raw, ZONE_REQUESTS_ORIGIN_STATUS_COUNTRY_HOST, labels, group.count)
        g == addGauge(c, ZONE_ORIGIN_RESPONSE_DURATION_MS, labels,
                      group.avg.originResponseDurationMs)
    IN  IF status = 0 THEN raw
        ELSE IF status >= 400 /\ status < 500
             THEN addCounter(g, ZONE_CUSTOMER_ERROR_4XX_RATE, labels, group.count)
        ELSE IF status >= 500
             THEN addCounter(g, ZONE_CUSTOMER_ERROR_5XX_RATE, labels, group.count)
        ELSE g

\* The body of the loop over zone.httpRequestsAdaptiveGroups (640-659)
AdaptiveGroup(group, info, raw) ==
    LET status == group.dimensions.originResponseStatus
        labels == adaptiveLabels(group, info)
        c == addCounter(raw, ZONE_REQUESTS_ORIGIN_STATUS_COUNTRY_HOST, labels, group.count)
        g == addGauge(c, ZONE_ORIGIN_RESPONSE_DURATION_MS, labels,
                      group.avg.originResponseDurationMs)
    IN  IF status = 0 THEN raw
        ELSE IF status >= 400 /\ status < 500 /\ status # 499
             THEN addCounter(g, ZONE_CUSTOMER_ERROR_4XX_RATE, labels, group.count)
        ELSE IF status >= 500
             THEN addCounter(g, ZONE_CUSTOMER_ERROR_5XX_RATE, labels, group.count)
        ELSE g

\* for (const group of zone.httpRequestsAdaptiveGroups)
RECURSIVE AdaptiveGroups(_, _, _)
AdaptiveGroups(groups, info, raw) ==
    IF groups = <<>> THEN raw
    ELSE AdaptiveGroups(Tail(groups), info, AdaptiveGroup(Head(groups), info, raw))

\* The loop over adaptiveData.viewer.zones (633-660)
RECURSIVE AdaptiveMetrics(_, _, _)
AdaptiveMetrics(rows, zs, raw) ==
    IF rows = <<>> THEN raw
    ELSE LET zone == Head(rows)
             info == findZoneInfo(nonFreeZones(zs), zone.zoneTag)
         IN  IF info = <<>> THEN AdaptiveMetrics(Tail(rows), zs, raw)
             ELSE AdaptiveMetrics(Tail(rows), zs,
                     AdaptiveGroups(zone.httpRequestsAdaptiveGroups, info[1], raw))

\* Origin statuses the upstream may report, the boundaries of the classes
\* among them; 0 is a request that did not reach the origin
OriginStatuses == {0, 200, 399, 400, 404, 499, 500, 503}

AdaptiveRows ==
    {[dimensions |-> [originResponseStatus |-> s,
                      clientCountryName |-> <<"US">>,
                      clientRequestHTTPHost |-> h],
      count |-> 1,
      avg |-> [originResponseDurationMs |-> 20]] :
        s \in OriginStatuses, h \in {<<>>, <<"www.example.com">>}}

InitAdaptive ==
    /\ InitState(1)
    /\ interval = 1
    /\ batchSize = 10
    /\ \E excludeHost \in BOOLEAN : env = [defaultEnv EXCEPT !.excludeHost = excludeHost]
    /\ upstream = [zones |-> <<Z1, Z2>>, values |-> {}, gaugeValues |-> {},
                   healthValues |-> {}, maxRows |-> 1, failing |-> {},
                   maxEvents |-> 0]
    /\ \E n \in 0..MaxGroups, tag \in {"Z1", "Z9"} :
          input \in [zoneTag : {tag}, httpRequestsAdaptiveGroups : [1..n -> AdaptiveRows]]
    /\ output = <<>>
    /\ client = <<>>

\* One answer of fetchAdaptiveMetrics run through the loop
CollectAdaptive ==
    /\ output = <<>>
    /\ output' = <<AdaptiveMetrics(<<input>>, upstream.zones,
                                   [counters |-> EmptyMap, gauges |-> EmptyMap])>>
    /\ UNCHANGED <<input, client, actorVars>>

NextAdaptive == CollectAdaptive

SpecAdaptive == InitAdaptive /\ [][NextAdaptive]_vars

(***************************************************************************)
(* Cycles whose answers carry firewall event groups (index.ts 571-592)     *)
(***************************************************************************)
MaxEvents == 2

InitFirewall ==
    /\ InitState(1)
    /\ interval = 1
    /\ batchSize = 10
    /\ env = defaultEnv
    /\ upstream = [zones |-> <<Z1>>, values |-> {1, 2}, gaugeValues |-> {0},
                   healthValues |-> {}, maxRows |-> 1, failing |-> {},
                   maxEvents |-> MaxEvents]
    /\ input = <<>>
    /\ output = <<>>
    /\ client = <<>>

SpecFirewall == InitFirewall /\ [][Next]_vars

(***************************************************************************)
(* The batch loop under the configured batch size (Config.ts 96,           *)
(* index.ts 468-471)                                                       *)
(***************************************************************************)
MaxIterations == 4

\* parseInt(env["CF_BATCH_SIZE"] ?? "10", 10); <<>> is an unset variable
\* and <<n>> one that holds the digits of n
batchSizeFromEnv(value) == IF value = <<>> THEN 10 ELSE value[1]

\* Array.prototype.slice(start, end): a negative index counts from the end
\* and both indices are clamped to the length
sliceIndex(seq, k) ==
    IF k < 0 THEN (IF Len(seq) + k > 0 THEN Len(seq) + k ELSE 0)
    ELSE IF k > Len(seq) THEN Len(seq) ELSE k

arraySlice(seq, start, end) ==
    IF sliceIndex(seq, start) < sliceIndex(seq, end)
    THEN SubSeq(seq, sliceIndex(seq, start) + 1, sliceIndex(seq, end))
    ELSE <<>>

\* Settings of CF_BATCH_SIZE in the environment of the worker
BatchSizeSettings == {<<>>} \cup {<<n>> : n \in {-1, 0, 1, 2, 10, 11}}

InitBatch ==
    /\ InitState(1)
    /\ interval = 1
    /\ env = defaultEnv
    /\ upstream = [zones |-> <<>>, values |-> {}, gaugeValues |-> {},
                   healthValues |-> {}, maxRows |-> 1, failing |-> {},
                   maxEvents |-> 0]
    /\ \E setting \in BatchSizeSettings, ids \in IDLists :
          /\ input = [CF_BATCH_SIZE |-> setting, zoneIDs |-> ids]
          /\ batchSize = batchSizeFromEnv(setting)
    /\ output = <<>>
    /\ client = <<>>

\* for (let i = 0; ...
EnterBatchLoop ==
    /\ output = <<>>
    /\ output' = <<[i |-> 0, batches |-> <<>>, done |-> FALSE]>>
    /\ UNCHANGED <<input, client, actorVars>>

\* ... i < zoneIDs.length; i += config.batchSize) with
\* batchIDs = zoneIDs.slice(i, i + config.batchSize); the model follows the
\* loop for MaxIterations iterations
BatchLoopIteration ==
    /\ output # <<>>
    /\ ~output[1].done
    /\ output[1].i < Len(input.zoneIDs)
    /\ Len(output[1].batches) < MaxIterations
    /\ output' = <<[i |-> output[1].i + config.batchSize,
                    batches |-> Append(output[1].batches,
                                       arraySlice(input.zoneIDs, output[1].i,
                                             output[1].i + config.batchSize)),
                    done |-> FALSE]>>
    /\ UNCHANGED <<input, client, actorVars>>

\* The loop condition fails: collectProgram goes on to return its result
BatchLoopExit ==
    /\ output # <<>>
    /\ ~output[1].done
    /\ ~(output[1].i < Len(input.zoneIDs))
    /\ output' = <<[output[1] EXCEPT !.done = TRUE]>>
    /\ UNCHANGED <<input, client, actorVars>>

NextBatch ==
    \/ EnterBatchLoop
    \/ BatchLoopIteration
    \/ BatchLoopExit

\* The program runs on while it has a step to take
SpecBatch == InitBatch /\ [][NextBatch]_vars /\ WF_vars(NextBatch)

(***************************************************************************)
(* metricKey on two observations (index.ts 307-314)                        *)
(***************************************************************************)
\* Label values as the upstream supplies them (rule descriptions, hosts):
\* free text that may hold the characters the key is built with
FreeTextValues == {<<"a">>, <<"b">>, <<"a", ",", "zone", "=", "b">>, <<"{", "a", "}">>}

SeriesLabelObjects ==
    {s \in UNION {[1..n -> {<<"account">>, <<"zone">>} \X FreeTextValues] : n \in 0..2} :
        \A i, j \in 1..Len(s) : i # j => s[i][1] # s[j][1]}

InitSeries ==
    /\ InitState(1)
    /\ interval = 1
    /\ batchSize = 10
    /\ env = defaultEnv
    /\ upstream = [zones |-> <<>>, values |-> {}, gaugeValues |-> {},
                   healthValues |-> {}, maxRows |-> 1, failing |-> {},
                   maxEvents |-> 0]
    /\ input \in [first : [name : {ZONE_REQUESTS_TOTAL}, labels : SeriesLabelObjects],
                  second : [name : {ZONE_REQUESTS_TOTAL, ZONE_FIREWALL_EVENTS_COUNT},
                            labels : SeriesLabelObjects]]
    /\ output = <<>>
    /\ client = <<>>

\* addCounter / addGauge compute the state key of each observation
KeyBoth ==
    /\ output = <<>>
    /\ output' = <<[first |-> metricKey(input.first.name, input.first.labels),
                    second |-> metricKey(input.second.name, input.second.labels)]>>
    /\ UNCHANGED <<input, client, actorVars>>

NextSeries == KeyBoth

SpecSeries == InitSeries /\ [][NextSeries]_vars

(***************************************************************************)
(* The query windows of consecutive cycles (index.ts 369-384,              *)
(* CloudflareClient.ts 695-704), in seconds                                *)
(***************************************************************************)
MaxCycles == 3

\* Times at which the first alarm is due, seconds a cycle takes from the
\* start of alarm() to its setAlarm, and settings of DO_ALARM_INTERVAL with
\* TIME_WINDOW set to the same number of seconds
FirstAlarms == {600, 601, 630, 659}
CycleDurations == {0, 1, 30, 60}
RefreshIntervals == {60, 120}

InitCoverage ==
    /\ InitState(1)
    /\ batchSize = 10
    /\ interval \in RefreshIntervals
    /\ \E delay \in {0, 300} :
          env = [defaultEnv EXCEPT !.scrapeDelay = delay, !.timeWindow = interval]
    /\ upstream = [zones |-> <<>>, values |-> {}, gaugeValues |-> {},
                   healthValues |-> {}, maxRows |-> 1, failing |-> {},
                   maxEvents |-> 0]
    /\ input \in FirstAlarms
    /\ output = <<>>
    /\ client = <<>>

\* alarm() runs when the alarm is due, at time input: the category fetches
\* compute their window with getTimeRange() as the cycle starts, and after
\* the cycle's duration the next alarm is set to Date.now() + interval
RunCycle ==
    /\ Len(output) < MaxCycles
    /\ \E duration \in CycleDurations :
          /\ output' = Append(output, getTimeRange(input))
          /\ input' = input + duration + interval
    /\ UNCHANGED <<client, actorVars>>

NextCoverage == RunCycle

SpecCoverage == InitCoverage /\ [][NextCoverage]_vars

(***************************************************************************)
(* startMetricsExporter of the Go exporter (internal/routes/router.go)     *)
(***************************************************************************)
MaxRuns == 6

InitExporter ==
    /\ InitState(1)
    /\ interval = 1
    /\ batchSize = 10
    /\ env = defaultEnv
    /\ upstream = [zones |-> <<>>, values |-> {}, gaugeValues |-> {},
                   healthValues |-> {}, maxRows |-> 1, failing |-> {},
                   maxEvents |-> 0]
    /\ input = <<>>
    /\ output = <<>>
    /\ client = <<>>

\* case <-ticker.C: the loop starts a goroutine that calls FetchMetrics and
\* goes back to the select at once (86-93); output lists the runs started,
\* one per tick of the 60-second ticker
TickerFires ==
    /\ Len(output) < MaxRuns
    /\ output' = Append(output, "running")
    /\ UNCHANGED <<input, client, actorVars>>

\* A run of FetchMetrics returns, after any length of time: it waits for
\* the rate limiter and for the worker pool (1936-2033)
FetchMetricsReturns ==
    /\ \E run \in 1..Len(output) :
          /\ output[run] = "running"
          /\ output' = [output EXCEPT ![run] = "returned"]
    /\ UNCHANGED <<input, client, actorVars>>

NextExporter ==
    \/ TickerFires
    \/ FetchMetricsReturns

SpecExporter == InitExporter /\ [][NextExporter]_vars

(***************************************************************************)
(* Properties                                                              *)
(***************************************************************************)
\* A step in which the fetch program of a cycle exits
ExitStep == exit = <<>> /\ exit' # <<>>
SuccessStep == ExitStep /\ exit'[1].success
FailureStep == ExitStep /\ ~exit'[1].success

\* C1 - Monotonicity: no step removes a counter or lowers its accumulated
\* total, whatever raw values the upstream reports (decreases included).
C1_Monotonicity ==
    [][\A k \in DOMAIN counters :
          /\ k \in DOMAIN counters'
          /\ counters'[k].accumulated >= counters[k].accumulated]_vars

\* A cycle has just reconciled a counter whose raw value had decreased at
\* some cycle (its total exceeds its latest raw value)
C1_Witness ==
    /\ exit # <<>>
    /\ exit[1].success
    /\ \E k \in DOMAIN exit[1].counters : counters[k].accumulated > counters[k].prev

\* C2 - Delta rule: a successful cycle credits the first observation of an
\* identity in full (prev = accumulated = r1); a later observation r adds r
\* when r is below the previously observed raw value and r minus that value
\* otherwise, and prev becomes r; the observations 100, 150, 40, 90 of one
\* identity give the totals 100, 150, 190, 240.
ExampleTotals == <<100, 150, 190, 240>>

DeltaRuleStep ==
    \A k \in DOMAIN exit'[1].counters :
        LET r == exit'[1].counters[k]
        IN  IF k \notin DOMAIN lastRaw
            THEN counters'[k] = [prev |-> r, accumulated |-> r]
            ELSE counters'[k] =
                    [prev |-> r,
                     accumulated |-> counters[k].accumulated +
                                     (IF r < lastRaw[k] THEN r ELSE r - lastRaw[k])]

C2_DeltaRule ==
    /\ [][SuccessStep => DeltaRuleStep]_vars
    /\ [](exampleAt > 0 =>
            /\ counters[ExampleKey].prev = Example[exampleAt]
            /\ counters[ExampleKey].accumulated = ExampleTotals[exampleAt])

\* The four observations of the example have been reconciled
C2_Witness == exampleAt = Len(Example)

\* C3 - Label-set order independence: the key computed for a label object
\* is the key of every label object with the same name and the same
\* key/value pairs, whatever their insertion order.
C3_OrderIndependence ==
    output # <<>> => output[1].key = metricKey(input.name, input.labels)

\* The key of {zone: "a", account: "b"} is compared with that of
\* {account: "b", zone: "a"}
C3_Witness ==
    /\ output # <<>>
    /\ output[1].labels = << <<(<<"zone">>), <<"a">> >>, <<(<<"account">>), <<"b">> >> >>
    /\ input.labels = << <<(<<"account">>), <<"b">> >>, <<(<<"zone">>), <<"a">> >> >>

\* A step that handles a request, and a step in which alarm() returns
RequestStep == response' # <<>>
ReturnStep == alarmPc = "save" /\ alarmPc' = "idle"

\* Does a line of the exposition text belong to the metric of that name:
\* its HELP line, its TYPE line or one of its samples
LineMentions(line, name) ==
    \/ /\ Len(line) > Len(name) + 1
       /\ line[1] \in {"# HELP ", "# TYPE "}
       /\ SubSeq(line, 2, Len(name) + 1) = name
       /\ line[Len(name) + 2] = " "
    \/ /\ Len(line) > Len(name)
       /\ SubSeq(line, 1, Len(name)) = name
       /\ line[Len(name) + 1] \in {"{", " "}

\* C4 - Denylist: no line of a /metrics response belongs to a metric whose
\* name is in config.metricsDenylist.
C4_DenylistHonoured ==
    (response # <<>> /\ response.request = "/metrics") =>
        \A i \in 1..Len(response.lines) : \A name \in config.metricsDenylist :
            ~LineMentions(response.lines[i], name)

\* C5 - The scrape path is read-only: a request changes neither counters,
\* gauges, lastFetch, lastError nor the stored state, issues no upstream
\* call, and /metrics renders the state as it was.
C5_ScrapeReadOnly ==
    [][RequestStep =>
          /\ UNCHANGED <<counters, gauges, lastFetch, lastError, stored, upstreamCalls>>
          /\ response'.request = "/metrics" =>
                response'.lines = serializeMetrics(state, now).lines]_vars

\* A /metrics request was answered from collected counters while a refresh
\* cycle was awaiting the upstream
C5_Witness ==
    /\ response # <<>>
    /\ response.request = "/metrics"
    /\ alarmPc \in AwaitPoints
    /\ DOMAIN counters # {}

\* C6 - At most one execution of alarm()/collectMetrics is in progress, and
\* a request never starts or advances one.
C6_SingleCycle ==
    /\ [](running <= 1)
    /\ [][RequestStep => UNCHANGED <<running, alarmPc>>]_vars

\* A request handled during a cycle has armed an alarm which is already due
\* while that cycle is still in progress
C6_Witness ==
    /\ running = 1
    /\ currentAlarm # null
    /\ now >= currentAlarm

\* C7 - Read consistency: the text of a /metrics response is the rendering
\* of the state as it was when the latest finished cycle returned (or of the
\* initial state): counters, gauges, lastFetch and lastError all stem from
\* the same cycle boundary.
LastSaved == IF stored = <<>> THEN emptyState ELSE stored[1]

C7_ReadConsistency ==
    (response # <<>> /\ response.request = "/metrics") =>
        response.lines = serializeMetrics(LastSaved, now).lines

\* A /metrics request answered while a later cycle is in progress
C7_Witness ==
    /\ response # <<>>
    /\ response.request = "/metrics"
    /\ alarmPc = "fetchCategories"
    /\ stored # <<>>
    /\ DOMAIN stored[1].counters # {}

\* C8 - Rescheduling: when alarm() returns, after a successful as after a
\* failed cycle, the alarm is set to the time of return plus the interval;
\* from the first armed alarm on, an alarm is pending or a cycle is running,
\* cycles do not overlap, and a pending alarm leads to a cycle.
Armed == currentAlarm # null \/ running > 0

C8_Rescheduling ==
    /\ [][ReturnStep => currentAlarm' = now' + interval]_vars
    /\ [][Armed => Armed']_vars
    /\ [](running <= 1)
    /\ ((currentAlarm # null /\ currentAlarm <= MaxTime) ~> (running = 1))
    /\ ((running = 1) ~> (running = 0 /\ currentAlarm = now + interval))

\* alarm() has returned from a failed cycle that took time, and the alarm
\* is set
C8_Witness ==
    /\ alarmPc = "idle"
    /\ lastCycle = "failed"
    /\ stored # <<>>
    /\ lastFetch > 0
    /\ currentAlarm = now + interval
    /\ currentAlarm > lastFetch + 2 * interval

\* C9 - Cycle-level failure: a failed cycle sets lastError to the failure
\* message and leaves every counter, every gauge and lastFetch as they
\* were; the alarm is set when the handler has returned.
C9_CycleFailure ==
    /\ [][FailureStep =>
            /\ lastError' = FailureMessage
            /\ UNCHANGED <<counters, gauges, lastFetch>>]_vars
    /\ []((alarmPc = "idle" /\ lastCycle = "failed") => currentAlarm # null)

\* A cycle has failed after an earlier cycle had collected counters
C9_Witness ==
    /\ exit # <<>>
    /\ ~exit[1].success
    /\ DOMAIN counters # {}
    /\ lastFetch > 0

\* C10 - A successful cycle sets lastFetch to the current time and clears
\* lastError; a failed cycle sets lastError and keeps lastFetch; lastError
\* is set exactly when the most recent cycle failed.
C10_LastErrorTracksLatest ==
    /\ [][SuccessStep => (lastFetch' = now' /\ lastError' = undefined)]_vars
    /\ [][FailureStep => (lastError' # undefined /\ lastFetch' = lastFetch)]_vars
    /\ []((lastError # undefined) <=> (lastCycle = "failed"))

\* A cycle has succeeded right after a failed one
C10_Witness ==
    /\ exit # <<>>
    /\ exit[1].success
    /\ stored # <<>>
    /\ stored[1].lastError # undefined

\* The identities a category emits for a zone of the running cycle
BaseLabels(id) ==
    LET info == findZoneInfo(nonFreeZones(zones), id)[1]
    IN  << <<(<<"zone">>), info.name>>, <<(<<"account">>), info.account>> >>

RequestsKey(id) == metricKey(ZONE_REQUESTS_TOTAL, BaseLabels(id))
CachedKey(id) == metricKey(ZONE_REQUESTS_CACHED, BaseLabels(id))
HealthAvgKey(id) == metricKey(ZONE_HEALTH_CHECK_EVENTS_AVG, BaseLabels(id))
HealthKey(id, group) ==
    metricKey(ZONE_HEALTH_CHECK_EVENTS_ORIGIN_COUNT,
              BaseLabels(id) \o << <<(<<"health_status">>), group.dimensions.healthStatus>>,
                                   <<(<<"origin_ip">>), group.dimensions.originIP>>,
                                   <<(<<"fqdn">>), group.dimensions.fqdn>> >>)

\* The last row of a response for its zone
LastRow(rows, i) == \A j \in (i + 1)..Len(rows) : rows[j].zoneTag # rows[i].zoneTag

\* A counter or gauge is exactly as it was, or absent as it was
SameEntry(old, new, k) ==
    /\ (k \in DOMAIN new) <=> (k \in DOMAIN old)
    /\ k \in DOMAIN old => new[k] = old[k]

\* A step in which the category fetches of a cycle return
CategoriesStep == alarmPc = "fetchCategories" /\ ExitStep

\* What a slice (one category for one batch) contributes to the state
HTTPSliceReconciled(b) ==
    LET slice == exit'[1].outcomes[b].http
    IN  IF slice.failed
        THEN \A i \in 1..Len(Batches(zoneIDs(zones))[b]) :
                LET id == Batches(zoneIDs(zones))[b][i]
                IN  /\ SameEntry(counters, counters', RequestsKey(id))
                    /\ SameEntry(gauges, gauges', CachedKey(id))
        ELSE \A i \in 1..Len(slice.rows) :
                LastRow(slice.rows, i) =>
                    /\ counters'[RequestsKey(slice.rows[i].zoneTag)].prev = slice.rows[i].requests
                    /\ gauges'[CachedKey(slice.rows[i].zoneTag)] = slice.rows[i].cachedRequests

HealthSliceReconciled(b) ==
    LET slice == exit'[1].outcomes[b].health
    IN  IF slice.failed
        THEN \A i \in 1..Len(Batches(zoneIDs(zones))[b]) :
                LET id == Batches(zoneIDs(zones))[b][i]
                IN  /\ SameEntry(gauges, gauges', HealthAvgKey(id))
                    /\ \A n \in upstream.healthValues :
                          SameEntry(counters, counters', HealthKey(id, HealthGroup(n)))
        ELSE \A i \in 1..Len(slice.rows) :
                LastRow(slice.rows, i) =>
                    \A g \in 1..Len(slice.rows[i].healthCheckEventsAdaptiveGroups) :
                        LET group == slice.rows[i].healthCheckEventsAdaptiveGroups[g]
                        IN  counters'[HealthKey(slice.rows[i].zoneTag, group)].prev = group.count

\* C11 - Failure isolation: when the category fetches of a cycle return,
\* each slice whose fetch failed leaves the identities of its zones as they
\* were, each row of every other slice is reconciled into the state, the
\* cycle is successful (lastFetch is the current time) and lastError is
\* not set.
C11_FailureIsolation ==
    [][CategoriesStep =>
          /\ exit'[1].success
          /\ lastFetch' = now'
          /\ lastError' = undefined
          /\ \A b \in 1..Len(exit'[1].outcomes) :
                HTTPSliceReconciled(b) /\ HealthSliceReconciled(b)]_vars

\* The health-check fetch failed for the second batch while the other
\* slices returned rows, and the cycle has updated the state
C11_Witness ==
    /\ exit # <<>>
    /\ Len(exit[1].outcomes) = 2
    /\ exit[1].outcomes[2].health.failed
    /\ exit[1].outcomes[1].health.rows # <<>>
    /\ exit[1].outcomes[1].http.rows # <<>>
    /\ exit[1].outcomes[2].http.rows # <<>>
    /\ Cardinality(DOMAIN counters) = 3
    /\ lastFetch = now

C13_ScrapeAlwaysAnswers ==
    (response # <<>> /\ response.request = "/metrics") =>
        /\ response.status = 200
        /\ response.lines = serializeMetrics(state, now).lines

\* A /metrics request was answered while a cycle awaited the category
\* fetches, after a failed cycle and before any cycle has succeeded
C13_Witness ==
    /\ response # <<>>
    /\ response.request = "/metrics"
    /\ response.status = 200
    /\ alarmPc = "fetchCategories"
    /\ lastFetch = 0
    /\ lastError = FailureMessage

\* A line of the exposition text that is a sample (not a comment)
IsSample(line) == line[1] \notin {"# HELP ", "# TYPE ", "# Metrics staleness: ", "# Last error: "}

\* Every label value of a sample line is enclosed in double quotes
QuotedLabels(line) ==
    \A i \in 1..Len(line) :
        line[i] = "=" =>
            /\ i + 2 < Len(line)
            /\ line[i + 1] = "\""
            /\ \E j \in (i + 2)..Len(line) : line[j] = "\"" /\ line[j + 1] \in {",", "}"}

\* C14 - Label formatting: every sample line of a /metrics response is
\* name{k="v",...} value with each label value in double quotes, and the
\* requests counter of zone example.com of account Acme is rendered as
\* cloudflare_zone_requests_total{zone="example.com",account="acme"} value.
C14_LabelFormatting ==
    (response # <<>> /\ response.request = "/metrics") =>
        /\ \A i \in 1..Len(response.lines) :
              IsSample(response.lines[i]) => QuotedLabels(response.lines[i])
        /\ ExampleKey \in DOMAIN counters =>
              \E i \in 1..Len(response.lines) :
                 response.lines[i] =
                    ZONE_REQUESTS_TOTAL
                    \o formatLabels(<< <<(<<"zone">>), Z1.name>>,
                                       <<(<<"account">>), normalizeAccountName(Z1.account)>> >>)
                    \o <<" ", ToString(counters[ExampleKey].accumulated)>>

\* The lines of an exposition text that belong to a metric name
MetricNames == {METRICS[i].name : i \in 1..Len(METRICS)}

CommentLines(lines, comment, name) ==
    {i \in 1..Len(lines) :
        /\ Len(lines[i]) > Len(name) + 1
        /\ lines[i][1] = comment
        /\ SubSeq(lines[i], 2, Len(name) + 1) = name
        /\ lines[i][Len(name) + 2] = " "}

SampleLines(lines, name) ==
    {i \in 1..Len(lines) :
        /\ Len(lines[i]) > Len(name)
        /\ SubSeq(lines[i], 1, Len(name)) = name
        /\ lines[i][Len(name) + 1] \in {"{", " "}}

CounterNames == {parseKey(k).name : k \in DOMAIN counters}
GaugeNames == {parseKey(k).name : k \in DOMAIN gauges}

\* C15 - For each metric name present in the state a /metrics response has
\* exactly one HELP line and exactly one TYPE line, both before every sample
\* of that name, one sample per identity of that name, and the type of a
\* name is fixed: no name is stored both as a counter and as a gauge, and
\* its TYPE line says counter exactly when it is stored as a counter.
C15_OneHelpOneType ==
    /\ CounterNames \cap GaugeNames = {}
    /\ (response # <<>> /\ response.request = "/metrics") =>
          \A name \in MetricNames :
             LET help == CommentLines(response.lines, "# HELP ", name)
                 type == CommentLines(response.lines, "# TYPE ", name)
                 samples == SampleLines(response.lines, name)
             IN  IF name \in CounterNames \cup GaugeNames
                 THEN /\ Cardinality(help) = 1
                      /\ Cardinality(type) = 1
                      /\ \A h \in help, t \in type, i \in samples : h < t /\ t < i
                      /\ Cardinality(samples) =
                            Cardinality({k \in DOMAIN counters \cup DOMAIN gauges :
                                            parseKey(k).name = name})
                      /\ \A t \in type :
                            response.lines[t][Len(name) + 3] =
                               (IF name \in CounterNames THEN "counter" ELSE "gauge")
                 ELSE help = {} /\ type = {} /\ samples = {}

\* A /metrics response that renders two samples of one counter name next to
\* counters and gauges of other names
C15_Witness ==
    /\ response # <<>>
    /\ response.request = "/metrics"
    /\ Cardinality(SampleLines(response.lines, ZONE_REQUESTS_TOTAL)) = 2
    /\ Cardinality(SampleLines(response.lines, ZONE_REQUESTS_CACHED)) = 2
    /\ Cardinality(CounterNames) = 2

\* The annotation lines of an exposition text
StalenessLines(lines) == {i \in 1..Len(lines) : lines[i][1] = "# Metrics staleness: "}
ErrorLines(lines) == {i \in 1..Len(lines) : lines[i][1] = "# Last error: "}

\* C16 - Staleness annotation: a /metrics response carries one staleness
\* line with the seconds elapsed since the completion of the last
\* successful cycle, or -1 if no cycle has succeeded, and one last-error
\* line with the message exactly when lastError is set; a successful cycle
\* sets the reference time to its completion (staleness 0), a failed cycle
\* leaves it as it was.
C16_Staleness ==
    /\ []((response # <<>> /\ response.request = "/metrics") =>
            /\ Cardinality(StalenessLines(response.lines)) = 1
            /\ \A i \in StalenessLines(response.lines) :
                  response.lines[i] =
                     <<"# Metrics staleness: ",
                       ToString(IF lastFetch > 0 THEN now - lastFetch ELSE -1), "s">>
            /\ lastError = undefined => ErrorLines(response.lines) = {}
            /\ lastError # undefined =>
                  /\ Cardinality(ErrorLines(response.lines)) = 1
                  /\ \A i \in ErrorLines(response.lines) :
                        response.lines[i] = <<"# Last error: ", lastError>>)
    /\ [](lastCycle = "none" => lastFetch = 0)
    /\ [][SuccessStep => lastFetch' = now']_vars
    /\ [][~SuccessStep => lastFetch' = lastFetch]_vars

\* A /metrics response after a successful cycle followed, some seconds
\* later, by a failed one: the staleness is positive and the error is shown
C16_Witness ==
    /\ response # <<>>
    /\ response.request = "/metrics"
    /\ lastCycle = "failed"
    /\ lastFetch > 0
    /\ now - lastFetch >= 2
    /\ ErrorLines(response.lines) # {}

\* The key of a gauge without labels
PlainKey(name) == metricKey(name, <<>>)

\* C17 - Gauges are last-write-wins: after a successful cycle every gauge
\* the cycle emitted holds the last value emitted for it in that cycle -
\* for the cached-requests gauge of a zone the value of the last row of
\* that zone, for the exporter gauges the inventory sizes of this cycle,
\* for the health-check average the average of the zone's last row -
\* whatever the gauge held before and whatever was written earlier in the
\* cycle; every other gauge is as it was.
C17_GaugeLastWriteWins ==
    [][SuccessStep =>
          /\ gauges'[PlainKey(EXPORTER_UP)] = 1
          /\ gauges'[PlainKey(ZONES_TOTAL)] = Len(zones)
          /\ gauges'[PlainKey(ZONES_FILTERED)] = Len(filteredZones(zones))
          /\ gauges'[PlainKey(ZONES_PROCESSED)] = Len(zoneIDs(zones))
          /\ \A b \in 1..Len(exit'[1].outcomes) :
                LET http == exit'[1].outcomes[b].http.rows
                    health == exit'[1].outcomes[b].health.rows
                IN  /\ \A i \in 1..Len(http) :
                          LastRow(http, i) =>
                             gauges'[CachedKey(http[i].zoneTag)] = http[i].cachedRequests
                    /\ \A i \in 1..Len(health) :
                          LastRow(health, i) =>
                             gauges'[HealthAvgKey(health[i].zoneTag)] =
                                health[i].healthCheckEventsAdaptiveGroups[1].count
          /\ \A k \in DOMAIN gauges' \ DOMAIN exit'[1].gauges : SameEntry(gauges, gauges', k)]_vars

\* A cycle in which the response carried two rows with different cached
\* counts for the zone has replaced the value stored by an earlier cycle
C17_Witness ==
    /\ exit # <<>>
    /\ exit[1].success
    /\ Len(exit[1].outcomes) = 1
    /\ Len(exit[1].outcomes[1].http.rows) = 2
    /\ exit[1].outcomes[1].http.rows[1].cachedRequests = 1
    /\ exit[1].outcomes[1].http.rows[2].cachedRequests = 0
    /\ stored # <<>>
    /\ CachedKey("Z1") \in DOMAIN stored[1].gauges
    /\ stored[1].gauges[CachedKey("Z1")] = 1
    /\ gauges[CachedKey("Z1")] = 0

\* C18 - Identities absent from a cycle keep their state: a successful
\* cycle leaves prev and accumulated of every counter and the value of every
\* gauge that is not in its result as they were, a failed cycle leaves all
\* of them as they were, and no step removes a counter or a gauge.
C18_AbsentKeepState ==
    /\ [][SuccessStep =>
            /\ \A k \in DOMAIN counters \ DOMAIN exit'[1].counters :
                  k \in DOMAIN counters' /\ counters'[k] = counters[k]
            /\ \A k \in DOMAIN gauges \ DOMAIN exit'[1].gauges :
                  k \in DOMAIN gauges' /\ gauges'[k] = gauges[k]]_vars
    /\ [][~SuccessStep => UNCHANGED <<counters, gauges>>]_vars
    /\ [][DOMAIN counters \subseteq DOMAIN counters'
            /\ DOMAIN gauges \subseteq DOMAIN gauges']_vars

\* A cycle that observed one zone has completed while the state holds the
\* counter and the gauge of the other zone, which it did not observe
C18_Witness ==
    /\ exit # <<>>
    /\ exit[1].success
    /\ DOMAIN exit[1].counters # {}
    /\ DOMAIN counters \ DOMAIN exit[1].counters # {}
    /\ DOMAIN gauges \ DOMAIN exit[1].gauges # {}

\* The failures the retry policy is to retry: a network error, HTTP 429 or
\* HTTP 500 and above
RetryableResponse(r) == r.kind = "throw" \/ r.status = 429 \/ r.status >= 500
FailedResponse(r) == r # OkResponse

\* C19 - Retry policy: a call makes at most 4 attempts; every attempt but
\* the last met a retryable failure; a call still under way after a failed
\* attempt met a retryable failure and has made fewer than 4 attempts; a
\* GraphQL error or a 4xx other than 429 ends the call at once, so when it
\* is the first response the call has made exactly one attempt; a failed
\* call surfaces the failure of its last attempt, which either is not
\* retryable or is the 4th.
C19_RetryPolicy ==
    \A f \in DOMAIN client.calls :
        LET call == client.calls[f]
            a == call.attempts
        IN  /\ Len(a) <= 4
            /\ \A i \in 1..(Len(a) - 1) : RetryableResponse(a[i])
            /\ (call.pc \in {"rateLimit", "sleeping", "fetching"} /\ Len(a) > 0) =>
                  RetryableResponse(a[Len(a)]) /\ Len(a) < 4
            /\ (Len(a) > 0 /\ FailedResponse(a[Len(a)]) /\ ~RetryableResponse(a[Len(a)])) =>
                  call.pc = "failed"
            /\ (Len(a) > 0 /\ FailedResponse(a[1]) /\ ~RetryableResponse(a[1])) => Len(a) = 1
            /\ call.pc = "succeeded" => a[Len(a)] = OkResponse
            /\ call.pc = "failed" =>
                  /\ ~RetryableResponse(a[Len(a)]) \/ Len(a) = 4
                  /\ call.error = tryPromise(a[Len(a)])
                  /\ call.error # <<>>

\* A call has failed after three retries, having met a network error, a
\* 429 and twice a 503
C19_Witness ==
    /\ client # <<>>
    /\ "call" \in DOMAIN client.calls
    /\ client.calls["call"].pc = "failed"
    /\ client.calls["call"].attempts =
          <<NetworkFailure, HttpResponse(429, FALSE), HttpResponse(503, FALSE),
            HttpResponse(503, FALSE)>>

\* The number of requests the calls have sent: one for every response met
\* and one for every request in flight
RECURSIVE Sent(_)
Sent(fibers) ==
    IF fibers = {} THEN 0
    ELSE LET f == CHOOSE g \in fibers : TRUE
         IN  Len(client.calls[f].attempts)
             + (IF client.calls[f].pc = "fetching" THEN 1 ELSE 0)
             + Sent(fibers \ {f})

\* C20 - Rate limiting: any two dispatches made through the client are at
\* least 1000/rateLimitRps ms apart, concurrent callers included, and the
\* limiter only delays: every call that has passed it has been dispatched
\* and no call has failed.
C20_MinimumInterval ==
    /\ \A i, j \in 1..Len(client.dispatches) :
          i < j => client.dispatches[j] - client.dispatches[i] >= rateLimitIntervalMs
    /\ Len(client.dispatches) = Sent(DOMAIN client.calls)
    /\ \A f \in DOMAIN client.calls : client.calls[f].pc # "failed"

\* What the options ask to keep: on the include-list, when there is one,
\* and not on the exclude-list
Listed(z) == Len(env.zones) = 0 \/ Includes(env.zones, z.id)
Excluded(z) == Includes(env.excludeZones, z.id)
Position(seq, x) == CHOOSE k \in 1..Len(seq) : seq[k] = x
Elements(seq) == {seq[i] : i \in 1..Len(seq)}

\* C21 - Include/exclude filtering: the kept zones are exactly the
\* inventory zones that are on the include-list (any zone when the list is
\* empty) and not on the exclude-list, each once, a zone on both lists is
\* dropped, and the kept zones are in the order of the inventory.
C21_Filtering ==
    output # <<>> =>
        LET kept == output[1].filtered
            inventory == upstream.zones
        IN  /\ Elements(kept) = {z \in Elements(inventory) : Listed(z) /\ ~Excluded(z)}
            /\ \A i, j \in 1..Len(kept) : i < j =>
                  Position(inventory, kept[i]) < Position(inventory, kept[j])
            /\ \A z \in Elements(inventory) :
                  (Includes(env.zones, z.id) /\ Excluded(z)) => z \notin Elements(kept)

\* The include-list names Z1 and Z2, Z2 is excluded as well, the inventory
\* holds Z3 before Z1: after filtering, only Z1 is kept
C21_Witness ==
    /\ output # <<>>
    /\ "filtered" \in DOMAIN output[1]
    /\ upstream.zones = <<Z3, Z2, Z1>>
    /\ Includes(env.zones, "Z1") /\ Includes(env.zones, "Z2") /\ ~Includes(env.zones, "Z3")
    /\ env.excludeZones = <<"Z2">>
    /\ output[1].filtered = <<Z1>>

\* The zone IDs a category is fetched for in the cycle
Fetched(category) ==
    UNION {Elements(output[1].calls[i].ids) :
             i \in {k \in 1..Len(output[1].calls) : output[1].calls[k].category = category}}

\* C22 - Free-tier downgrade: without free-tier mode, a kept zone on the
\* free plan is fetched for no premium-only category and for every other
\* per-zone category, and a kept zone on another plan is fetched for
\* every category; with free-tier mode no premium-only category is
\* fetched for any zone.
C22_FreeTierDowngrade ==
    output # <<>> =>
        LET kept == Elements(output[1].filtered)
        IN  /\ ~env.freeTier =>
                  \A z \in kept :
                      /\ \A c \in PremiumCategories :
                            z.id \in Fetched(c) <=> z.plan # FREE_TIER_PLAN_ID
                      /\ \A c \in BasicCategories : z.id \in Fetched(c)
            /\ env.freeTier => \A c \in PremiumCategories : Fetched(c) = {}

\* C23 - Batching: the batches, concatenated in order, are the list of
\* zone IDs of the cycle; every ID is in exactly one batch; every batch
\* but the last has batchSize IDs, the last has between 1 and batchSize.
C23_Batching ==
    output # <<>> =>
        LET ids == output[1].zoneIDs
            batches == output[1].batches
        IN  /\ Flatten(batches) = ids
            /\ \A id \in Elements(ids) :
                  Cardinality({b \in 1..Len(batches) : id \in Elements(batches[b])}) = 1
            /\ \A b \in 1..Len(batches) :
                  /\ Len(batches[b]) >= 1
                  /\ Len(batches[b]) <= batchSize
                  /\ b < Len(batches) => Len(batches[b]) = batchSize

\* Three zone IDs in batches of two: a full batch and a last batch of one
C23_Witness ==
    /\ output # <<>>
    /\ "batches" \in DOMAIN output[1]
    /\ batchSize = 2
    /\ Len(output[1].zoneIDs) = 3
    /\ Len(output[1].batches) = 2
    /\ Len(output[1].batches[2]) = 1

\* C24 - Missing credentials: without an API token or an API key and
\* email, a call makes exactly one attempt, which fails, and the failure
\* surfaced is an AuthenticationError that the retry policy does not
\* classify as retryable.
C24_AuthenticationNotRetried ==
    (client # <<>> /\ ~client.credentials) =>
        \A f \in DOMAIN client.calls :
            LET call == client.calls[f]
            IN  /\ Len(call.attempts) <= 1
                /\ Len(call.attempts) = 1 => call.pc = "failed"
                /\ call.pc = "failed" =>
                      /\ call.error[1].tag = "AuthenticationError"
                      /\ ~isRetryable(call.error[1])

C26_TimerInitialisation ==
    /\ currentAlarm = null
    /\ [][/\ (currentAlarm = null /\ currentAlarm' # null) => (RequestStep \/ ReturnStep)
          /\ (RequestStep /\ currentAlarm = null) => currentAlarm' = now + interval
          /\ (RequestStep /\ currentAlarm # null) => currentAlarm' = currentAlarm]_vars

\* A request has been answered while the timer armed earlier was pending:
\* the timer is due sooner than one interval from now
C26_Witness ==
    /\ response # <<>>
    /\ currentAlarm # null
    /\ currentAlarm < now + interval
    /\ alarmPc = "idle"

\* C27 - Refresh period: a cycle that starts when its alarm is due starts
\* exactly one interval after the start of the cycle before it.
C27_RefreshPeriod ==
    [][(/\ alarmPc = "idle" /\ alarmPc' = "fetchInventory"
        /\ cycleStart # null
        /\ now = currentAlarm) => now = cycleStart + interval]_vars

\* C28 (as stated) - Query window: maxtime is the time of the call less
\* scrapeDelay and mintime is maxtime less timeWindow, so the window is
\* timeWindow seconds long and not empty when timeWindow > 0.
C28_QueryWindow ==
    output # <<>> =>
        /\ output[1].maxtime = input - env.scrapeDelay
        /\ output[1].mintime = input - env.scrapeDelay - env.timeWindow
        /\ output[1].maxtime - output[1].mintime = env.timeWindow
        /\ env.timeWindow > 0 => output[1].mintime < output[1].maxtime

\* C28 (amended) - Query window: maxtime is the start of the minute of the
\* call less scrapeDelay and mintime is maxtime less timeWindow, so the
\* window is timeWindow seconds long and not empty when timeWindow > 0.
C28_QueryWindowOfMinute ==
    output # <<>> =>
        LET minute == output[1].maxtime + env.scrapeDelay
        IN  /\ minute % 60 = 0
            /\ minute <= input
            /\ input < minute + 60
            /\ output[1].mintime = output[1].maxtime - env.timeWindow
            /\ output[1].maxtime - output[1].mintime = env.timeWindow
            /\ env.timeWindow > 0 => output[1].mintime < output[1].maxtime

\* The window of a call made 59 seconds into a minute, with a delay that
\* is not a whole number of minutes and a window of 90 seconds
C28_Witness ==
    /\ output # <<>>
    /\ input % 60 = 59
    /\ "maxtime" \in DOMAIN output[1]
    /\ env.scrapeDelay = 45
    /\ env.timeWindow = 90
    /\ output[1].maxtime = input - 59 - 45

\* The value of a label in a label object, <<>> wrapped; <<>> if absent
LabelOf(labels, key) ==
    LET found == SelectSeq(labels, LAMBDA e : e[1] = key)
    IN  IF found = <<>> THEN <<>> ELSE <<found[1][2]>>

BaseLabelsKept(base, result) ==
    \A i \in 1..Len(base) : LabelOf(result, base[i][1]) = <<base[i][2]>>

KnownZone(tag) == findZoneInfo(nonFreeZones(upstream.zones), tag) # <<>>
RowKey(name, group) ==
    metricKey(name, adaptiveLabels(group,
                  findZoneInfo(nonFreeZones(upstream.zones), input.zoneTag)[1]))
Counted(name, group) == RowKey(name, group) \in DOMAIN output[1].counters
Gauged(name, group) == RowKey(name, group) \in DOMAIN output[1].gauges

\* C31: customer-error classification - an origin-status row with status s
\* (of a zone of the cycle) is counted in the 4xx customer-error counter if
\* and only if 400 <= s < 500 and s # 499, in the 5xx customer-error counter
\* if and only if s >= 500, never in both, and a row with status 0 produces
\* no observation at all.
C31_CustomerErrors ==
    (output # <<>> /\ KnownZone(input.zoneTag)) =>
        \A i \in 1..Len(input.httpRequestsAdaptiveGroups) :
            LET group == input.httpRequestsAdaptiveGroups[i]
                s == group.dimensions.originResponseStatus
            IN  /\ Counted(ZONE_CUSTOMER_ERROR_4XX_RATE, group)
                       <=> (400 <= s /\ s < 500 /\ s # 499)
                /\ Counted(ZONE_CUSTOMER_ERROR_5XX_RATE, group) <=> (s >= 500)
                /\ ~(/\ Counted(ZONE_CUSTOMER_ERROR_4XX_RATE, group)
                     /\ Counted(ZONE_CUSTOMER_ERROR_5XX_RATE, group))
                /\ s = 0 =>
                       /\ ~Counted(ZONE_REQUESTS_ORIGIN_STATUS_COUNTRY_HOST, group)
                       /\ ~Gauged(ZONE_ORIGIN_RESPONSE_DURATION_MS, group)
                       /\ ~Counted(ZONE_CUSTOMER_ERROR_4XX_RATE, group)
                       /\ ~Counted(ZONE_CUSTOMER_ERROR_5XX_RATE, group)

\* An answer with a 499 row and a 404 row of a zone of the cycle was processed
C31_Witness ==
    /\ output # <<>>
    /\ KnownZone(input.zoneTag)
    /\ Len(input.httpRequestsAdaptiveGroups) = 2
    /\ input.httpRequestsAdaptiveGroups[1].dimensions.originResponseStatus = 499
    /\ input.httpRequestsAdaptiveGroups[2].dimensions.originResponseStatus = 404
    /\ Counted(ZONE_CUSTOMER_ERROR_4XX_RATE, input.httpRequestsAdaptiveGroups[2])
    /\ Counted(ZONE_REQUESTS_ORIGIN_STATUS_COUNTRY_HOST, input.httpRequestsAdaptiveGroups[1])

FirewallKey(id) == metricKey(ZONE_FIREWALL_EVENTS_COUNT, BaseLabels(id))

\* The values a cycle emitted for the firewall events counter of a zone, in
\* emission order: one per firewall event group of each row of the zone
RECURSIVE FirewallObservations(_, _)
FirewallObservations(rows, id) ==
    IF rows = <<>> THEN <<>>
    ELSE (IF Head(rows).zoneTag = id
          THEN [i \in 1..Len(Head(rows).firewallEventsAdaptiveGroups) |->
                   Head(rows).firewallEventsAdaptiveGroups[i].count]
          ELSE <<>>) \o FirewallObservations(Tail(rows), id)

\* The delta rule applied to a CounterState for each value in turn
RECURSIVE Reconciled(_, _, _)
Reconciled(cs, key, values) ==
    IF values = <<>> THEN cs
    ELSE Reconciled(Put(cs, key, UpdateCounter(cs, key, Head(values))), key, Tail(values))

\* C32: every counter observation of a cycle is reconciled - when a cycle
\* emits the same counter identity more than once (the firewall events
\* counter of a zone, once per firewall event group), the CounterState after
\* the cycle is the one obtained by applying the delta rule to each of these
\* observations in emission order, none being dropped.
C32_EveryObservationReconciled ==
    [][SuccessStep =>
          \A z \in 1..Len(zones) :
             LET key == FirewallKey(zones[z].id)
                 obs == FirewallObservations(exit'[1].outcomes[1].http.rows, zones[z].id)
             IN  obs # <<>> =>
                    /\ key \in DOMAIN counters'
                    /\ counters'[key] = Reconciled(counters, key, obs)[key]]_vars

\* The sample of a counter in the response to a scrape: the state key,
\* a blank and the accumulated total
Served(key, v) ==
    /\ response # <<>>
    /\ response.request = "/metrics"
    /\ \E i \in 1..Len(response.lines) : response.lines[i] = key \o <<" ", ToString(v)>>

\* The state key of the requests counter of a zone of the account
RequestsTotalOf(zone) ==
    metricKey(ZONE_REQUESTS_TOTAL,
              << <<(<<"zone">>), zone.name>>,
                 <<(<<"account">>), normalizeAccountName(zone.account)>> >>)

\* No total exceeds the largest raw value times the number of cycles
Totals == 0..(2 * MaxTime + 2)

\* The accumulated totals the storage holds
Persisted(key) ==
    IF stored # <<>> /\ key \in DOMAIN stored[1].counters
    THEN stored[1].counters[key].accumulated ELSE 0

\* C33: crash consistency of counters - with the instance lost and
\* constructed anew at any point of a refresh cycle, a scrape that is served
\* the total v for a counter is never followed by a scrape that is served a
\* smaller total for it, and every total served is the total the storage
\* holds at that moment, so none is lost by a restart.
C33_CrashConsistency ==
    /\ \A v \in Totals :
          [](Served(RequestsTotalOf(Z1), v) =>
                [](\A w \in Totals : Served(RequestsTotalOf(Z1), w) => w >= v))
    /\ [](\A v \in Totals : Served(RequestsTotalOf(Z1), v) => v = Persisted(RequestsTotalOf(Z1)))
    /\ [][Persisted(RequestsTotalOf(Z1))' >= Persisted(RequestsTotalOf(Z1))]_vars

\* A scrape is served the persisted total after a restart has discarded the
\* update of a cycle that had not reached its storage.put
C33_Witness ==
    /\ alarmPc = "idle"
    /\ \E v \in Totals : v > 0 /\ Served(RequestsTotalOf(Z1), v)
    /\ RequestsTotalOf(Z1) \in DOMAIN lastRaw
    /\ lastRaw[RequestsTotalOf(Z1)] # counters[RequestsTotalOf(Z1)].prev

\* The requests a call has sent: one per reply met, and the one in flight
RequestsSent(call) == Len(call.attempts) + (IF call.pc = "fetching" THEN 1 ELSE 0)

\* C34: every network dispatch is gated - a request of a call, the first as
\* well as every retry, is sent only by a step that completes rateLimit for
\* it (the limiter's time stamp is set to the time of the dispatch), so the
\* call has passed the rate limiter once for every request it has sent.
C34_EveryAttemptGated ==
    /\ [](RequestsSent(client.calls["call"]) = Len(client.dispatches))
    /\ [][\A f \in DOMAIN client.calls :
             (client.calls[f].pc # "fetching" /\ client'.calls[f].pc = "fetching") =>
                 /\ client.calls[f].pc \in {"rateLimit", "sleeping"}
                 /\ client'.lastRequestTime = client.now
                 /\ client'.dispatches = Append(client.dispatches, client.now)]_vars
    /\ [][\A f \in DOMAIN client.calls :
             Len(client'.calls[f].attempts) > Len(client.calls[f].attempts) =>
                 client'.calls[f].pc # "fetching"]_vars

\* A third attempt is in flight after two retryable failures, each of the
\* three requests having passed the limiter
C34_Witness ==
    /\ client # <<>>
    /\ client.calls["call"].pc = "fetching"
    /\ Len(client.calls["call"].attempts) = 2
    /\ Len(client.dispatches) = 3

\* C35: batchSize is bounded to 1..10 - a configured batch size outside
\* this range is never used by a refresh cycle, every iteration of the batch
\* loop moves its index forward, and the loop of every cycle comes to its
\* end, after which the state is updated and the timer re-armed.
C35_BatchSizeBounded ==
    /\ [](output # <<>> => config.batchSize \in 1..10)
    /\ [][(output # <<>> /\ output' # <<>> /\ output' # output /\ ~output'[1].done) =>
             output'[1].i > output[1].i]_vars
    /\ <>(output # <<>> /\ output[1].done)

\* C36: counter state invariant - in every reachable state every counter
\* has 0 <= prev <= accumulated, and its prev is the raw value of the most
\* recent successful cycle that observed its identity (the upstream raw
\* values being non-negative).
C36_CounterStateInvariant ==
    \A k \in DOMAIN counters :
        /\ 0 <= counters[k].prev
        /\ counters[k].prev <= counters[k].accumulated
        /\ k \in DOMAIN lastRaw
        /\ counters[k].prev = lastRaw[k]

\* A counter whose raw value went down and up again over three cycles that
\* observed it, with a total above its latest raw value
C36_Witness ==
    \E k \in DOMAIN counters :
        /\ counters[k].prev = 2
        /\ counters[k].accumulated = 4
        /\ lastRaw[k] = 2

\* The label key/value pairs of an observation
PairsOf(identity) == {identity.labels[i] : i \in 1..Len(identity.labels)}

\* C37: state keys identify time series uniquely - two observations get the
\* same state key only if they have the same metric name and the same set
\* of label key/value pairs, also when label values contain ',' '=' '{' or
\* '}'.
C37_KeysIdentifySeries ==
    (output # <<>> /\ output[1].first = output[1].second) =>
        /\ input.first.name = input.second.name
        /\ PairsOf(input.first) = PairsOf(input.second)

\* C38: window coverage - with the refresh interval equal to timeWindow the
\* query windows of consecutive refresh cycles tile time: each window
\* starts where the window of the cycle before ended, without gap and
\* without overlap, whatever the duration of the cycles.
C38_WindowCoverage ==
    \A i \in 1..(Len(output) - 1) : output[i + 1].mintime = output[i].maxtime

\* The runs of FetchMetrics that have started and not returned
RunsInProgress(runs) == {run \in 1..Len(runs) : runs[run] = "running"}

\* C39: in the Go exporter fetch cycles do not overlap - no run of
\* FetchMetrics is started while a run started before has not returned,
\* also when a run takes longer than the period of the ticker.
C39_NoOverlap ==
    [][Len(output') > Len(output) => RunsInProgress(output) = {}]_vars

====
